---- MODULE Spec2Model ----
(***************************************************************************)
(* Model of the budget dashboard (src/unnamed/part_000, the Dashboard      *)
(* component and its module-level helpers) against its persistent store.   *)
(*                                                                         *)
(* Money.  A JavaScript number holding an amount is modelled as an integer *)
(* count of mills (1/1000 of the currency unit), so that amounts typed     *)
(* with more than two decimals (0.005) exist in the model; cents are       *)
(* integers.  clamp2/toCents are Math.round(n * 100): round to the nearest *)
(* cent, a tie going up.  For the amounts used here the IEEE-754 products  *)
(* were compared with this exact arithmetic: Math.round(c * pct) equals    *)
(* the exact half-up rounding for every c in 1..500000 and each of the     *)
(* five percentages, Math.round((k/100) * 100) = k for k in 0..300000, and *)
(* Math.round(0.005 * 100) = 1, Math.round(0.004 * 100) = 0.               *)
(*                                                                         *)
(* Text.  A category string is a sequence of one-character strings, so     *)
(* that indexOf, slice and trim act on it as they do in the code.          *)
(*                                                                         *)
(* Dates.  An ISO date is the number of its day; lexicographic order on    *)
(* YYYY-MM-DD is the order of the day numbers.                             *)
(***************************************************************************)
EXTENDS Integers, Sequences, FiniteSets, Bags, TLC

VARIABLES
    tzEast,                  \* environment: local time zone is east of UTC
    tbl_weekly_income,       \* store: weekly_income, week_start -> amount
    tbl_budgets,             \* store: budgets, a bag of rows
    tbl_bucket_transfers,    \* store: bucket_transfers, a bag of rows
    tbl_bucket_collections,  \* store: bucket_collections, a bag of rows (bucket is text)
    tbl_transactions,        \* store: transactions, a set of rows with ids
    tbl_category_map,        \* store: category_map, raw_category -> bucket
    nextId,                  \* store: next transaction id
    weekStart,               \* Dashboard state (useState), as named there
    weeklyIncome,
    budgets,
    transactions,
    transfers,
    collectedSet,
    categoryMap,
    errorMsg,
    coveringBucket,
    inflight,                \* requests started and not yet answered
    lastOp,                  \* what the last handler read and did
    allocIncome,             \* argument of buildBudgetInsertsExactTotal
    allocInserts,            \* its result
    savingsRows,             \* Savings page state: rows, selectedWeek
    selectedWeek,
    homeRows,                \* Home page state: rows, goals
    goals,
    tbl_user_goals,          \* store: user_goals, a set of rows with ids
    nextGoalId,              \* store: next user_goals id
    donut,                   \* GoalDonutCard: its props and what it shows
    tbl_collections,         \* store: collections (lib/collections), rows with ids
    isCollected              \* CollectButton state, one per mounted button

storeVars == <<tbl_weekly_income, tbl_budgets, tbl_bucket_transfers,
               tbl_bucket_collections, tbl_transactions, tbl_category_map, nextId>>
weekVars == <<weekStart, weeklyIncome, budgets, transactions, transfers,
              collectedSet, categoryMap>>
allocVars == <<allocIncome, allocInserts>>
savingsVars == <<savingsRows, selectedWeek>>
homeVars == <<homeRows, goals, tbl_user_goals, nextGoalId, donut>>
libVars == <<tbl_collections, isCollected>>
vars == <<tzEast, storeVars, weekVars, errorMsg, coveringBucket, inflight, lastOp, allocVars, libVars,
          savingsVars, homeVars>>

NULL == "null"

(***************************************************************************)
(* Text helpers                                                            *)
(***************************************************************************)
Space == " "

RECURSIVE trimStart(_)
trimStart(s) == IF s # <<>> /\ Head(s) = Space THEN trimStart(Tail(s)) ELSE s

RECURSIVE trimEnd(_)
trimEnd(s) ==
    IF s # <<>> /\ s[Len(s)] = Space THEN trimEnd(SubSeq(s, 1, Len(s) - 1)) ELSE s

\* String.prototype.trim
trim(s) == trimEnd(trimStart(s))

\* String.prototype.indexOf for a two-character pattern: 0-based, -1 when absent
indexOf(s, pat) ==
    LET hits == {i \in 1..(Len(s) - Len(pat) + 1) : SubSeq(s, i, i + Len(pat) - 1) = pat}
    IN  IF hits = {} THEN -1
        ELSE (CHOOSE i \in hits : \A j \in hits : i <= j) - 1

\* String.prototype.slice(from, to) with 0-based, end-exclusive indices
slice(s, from, to) == SubSeq(s, from + 1, to)

(***************************************************************************)
(* Constants                                                               *)
(***************************************************************************)
\* pct is held in hundredths: 0.15 is 15
ALLOCATIONS ==
    << [category |-> "save",          pct |-> 15],
       [category |-> "wants",         pct |-> 15],
       [category |-> "emergency",     pct |-> 10],
       [category |-> "student loans", pct |-> 25],
       [category |-> "expenses",      pct |-> 30] >>

BUCKETS == [i \in 1..Len(ALLOCATIONS) |-> ALLOCATIONS[i].category]

BucketSet == {BUCKETS[i] : i \in 1..Len(BUCKETS)}

\* the characters of each bucket name
Chars(b) ==
    CASE b = "save"          -> <<"s", "a", "v", "e">>
      [] b = "wants"         -> <<"w", "a", "n", "t", "s">>
      [] b = "emergency"     -> <<"e", "m", "e", "r", "g", "e", "n", "c", "y">>
      [] b = "student loans" -> <<"s", "t", "u", "d", "e", "n", "t", " ", "l", "o", "a", "n", "s">>
      [] b = "expenses"      -> <<"e", "x", "p", "e", "n", "s", "e", "s">>

(***************************************************************************)
(* Money helpers                                                           *)
(***************************************************************************)
\* Math.round(n / d) for d > 0: nearest integer, a tie towards +infinity
MathRound(n, d) == (2 * n + d) \div (2 * d)

MathAbs(n) == IF n < 0 THEN -n ELSE n
MathMax(a, b) == IF a >= b THEN a ELSE b
MathMin(a, b) == IF a <= b THEN a ELSE b

\* Math.round(n * 100) / 100, n in mills
clamp2(n) == 10 * MathRound(n, 10)

\* Math.round(n * 100): mills to integer cents
toCents(n) == MathRound(n, 10)

\* Math.round(cents) / 100: integer cents to a number (mills)
centsToNumber(cents) == 10 * cents

RECURSIVE SumFn(_)
SumFn(f) ==
    IF DOMAIN f = {} THEN 0
    ELSE LET x == CHOOSE y \in DOMAIN f : TRUE
         IN  f[x] + SumFn([y \in DOMAIN f \ {x} |-> f[y]])

(***************************************************************************)
(* Allocation builder                                                      *)
(***************************************************************************)
\* buildBudgetInsertsExactTotal without the leftover correction
buildBudgetInsertsNoLeftover(ws, income) ==
    LET incomeCents == toCents(income)
    IN  [i \in 1..Len(BUCKETS) |->
            [week_start |-> ws, category |-> BUCKETS[i],
             amount |-> centsToNumber(MathRound(incomeCents * ALLOCATIONS[i].pct, 100))]]

\* buildBudgetInsertsExactTotal truncating instead of rounding each bucket
buildBudgetInsertsTruncating(ws, income) ==
    LET incomeCents == toCents(income)
        c == [i \in 1..Len(ALLOCATIONS) |-> (incomeCents * ALLOCATIONS[i].pct) \div 100]
        leftover == incomeCents - SumFn(c)
    IN  [i \in 1..Len(BUCKETS) |->
            [week_start |-> ws, category |-> BUCKETS[i],
             amount |-> centsToNumber(IF BUCKETS[i] = "expenses" THEN c[i] + leftover ELSE c[i])]]

\* the rows to insert into budgets, in BUCKETS order (user_id is the one user)
buildBudgetInsertsExactTotal(ws, income) ==
    LET incomeCents == toCents(income)
        c == [i \in 1..Len(ALLOCATIONS) |-> MathRound(incomeCents * ALLOCATIONS[i].pct, 100)]
        sumCents == SumFn(c)
        leftover == incomeCents - sumCents
        centsByBucket(i) == IF BUCKETS[i] = "expenses" THEN c[i] + leftover ELSE c[i]
    IN  [i \in 1..Len(BUCKETS) |->
            [week_start |-> ws, category |-> BUCKETS[i],
             amount |-> centsToNumber(centsByBucket(i))]]

(***************************************************************************)
(* Bucket-locked transaction category helpers                              *)
(***************************************************************************)
TX_BUCKET_DELIM == <<":", ":">>

makeStoredCategory(bucket, raw) == Chars(bucket) \o TX_BUCKET_DELIM \o raw

\* BUCKETS.includes(b) for a text b, and the bucket it names
BucketsNamed(b) == {k \in BucketSet : Chars(k) = b}

\* splitStoredCategory that takes the text after the LAST delimiter as the label
splitStoredCategoryLastDelim(category) ==
    LET hits == {i \in 1..(Len(category) - 1) : SubSeq(category, i, i + 1) = TX_BUCKET_DELIM}
        idx  == IF hits = {} THEN -1 ELSE (CHOOSE i \in hits : \A j \in hits : i >= j) - 1
        b    == trim(slice(category, 0, idx))
        raw  == trim(slice(category, idx + Len(TX_BUCKET_DELIM), Len(category)))
    IN  IF idx > 0 /\ BucketsNamed(b) # {} /\ raw # <<>>
        THEN [bucket |-> CHOOSE k \in BucketsNamed(b) : TRUE, raw |-> raw]
        ELSE [bucket |-> NULL, raw |-> category]

splitStoredCategory(category) ==
    LET idx == indexOf(category, TX_BUCKET_DELIM)
        b   == trim(slice(category, 0, idx))
        raw == trim(slice(category, idx + Len(TX_BUCKET_DELIM), Len(category)))
    IN  IF idx > 0 /\ BucketsNamed(b) # {} /\ raw # <<>>
        THEN [bucket |-> CHOOSE k \in BucketsNamed(b) : TRUE, raw |-> raw]
        ELSE [bucket |-> NULL, raw |-> category]

isISOInRange(d, start, end) == d >= start /\ d <= end

\* new Date(iso + "T00:00:00") is local midnight and toISOString() is UTC:
\* east of UTC the UTC date of a local midnight is the day before
addDaysISO(iso, days) == iso + days - (IF tzEast THEN 1 ELSE 0)

(***************************************************************************)
(* Bags of rows                                                            *)
(***************************************************************************)
BagOfSeq(s) ==
    LET elems == {s[i] : i \in DOMAIN s}
    IN  [e \in elems |-> Cardinality({i \in DOMAIN s : s[i] = e})]

BagWhere(B, Test(_)) == [e \in {x \in DOMAIN B : Test(x)} |-> B[e]]

\* the sum of Amount(row) over the rows of B, each with its multiplicity
BagTotal(B, Amount(_)) == SumFn([e \in DOMAIN B |-> B[e] * Amount(e)])

(***************************************************************************)
(* Derived values of the Dashboard (useMemo)                               *)
(***************************************************************************)
\* mapDict: raw_category -> bucket; categoryMap is held as that function
mapDict == categoryMap

\* parsed.bucket ?? mapDict.get(t.category), NULL when neither names a bucket
BucketOfTx(t, md) ==
    LET parsed == splitStoredCategory(t.category)
    IN  IF parsed.bucket # NULL THEN parsed.bucket
        ELSE IF t.category \in DOMAIN md THEN md[t.category] ELSE NULL

unmappedCategories ==
    {t.category : t \in {x \in transactions :
        splitStoredCategory(x.category).bucket = NULL /\ x.category \notin DOMAIN mapDict}}

\* sums of the rows's useMemo for one bucket
baseBudgetByBucket(bs, bucket) ==
    BagTotal(BagWhere(bs, LAMBDA b : b.category = bucket), LAMBDA b : b.amount)

spentByBucket(txs, md, bucket) ==
    SumFn([t \in {x \in txs : x.amount < 0 /\ BucketOfTx(x, md) = bucket} |-> MathAbs(t.amount)])

\* deltaByBucket that adds the inbound transfers and forgets the outbound ones
deltaInboundOnly(trs, bucket) ==
    BagTotal(BagWhere(trs, LAMBDA tr : tr.to_bucket = bucket), LAMBDA tr : tr.amount)

\* deltaByBucket that subtracts the outbound transfers and forgets the inbound ones
deltaOutboundOnly(trs, bucket) ==
    0 - BagTotal(BagWhere(trs, LAMBDA tr : tr.from_bucket = bucket), LAMBDA tr : tr.amount)

deltaByBucket(trs, bucket) ==
    BagTotal(BagWhere(trs, LAMBDA tr : tr.to_bucket = bucket), LAMBDA tr : tr.amount)
    - BagTotal(BagWhere(trs, LAMBDA tr : tr.from_bucket = bucket), LAMBDA tr : tr.amount)

\* { category, budgeted, spent, variance: clamp2(budgeted - spent) }
Row(bucket, budgeted, spent) ==
    [category |-> bucket, budgeted |-> budgeted, spent |-> spent,
     variance |-> clamp2(budgeted - spent)]

\* the Row of every bucket from the given budgets, transactions, map and transfers;
\* @@ makes it an explicit array, computed once as the memo is
Rows(bs, txs, md, trs) ==
    [bucket \in BucketSet |->
        Row(bucket,
            clamp2(baseBudgetByBucket(bs, bucket) + deltaByBucket(trs, bucket)),
            clamp2(spentByBucket(txs, md, bucket)))] @@ <<>>

rows == Rows(budgets, transactions, mapDict, transfers)

\* availableFromBucket that forgets the collected set
availableIgnoringCollected(r, bucket) ==
    IF bucket \notin BucketSet THEN 0 ELSE MathMax(0, clamp2(r[bucket].variance))

\* r is the rows of the render the caller belongs to
availableFromBucket(r, bucket) ==
    IF bucket \notin BucketSet THEN 0
    ELSE IF bucket \in collectedSet THEN 0
    ELSE MathMax(0, clamp2(r[bucket].variance))

coverOptions(r, target) == {b \in BucketSet : b # target /\ availableFromBucket(r, b) > 0}

(***************************************************************************)
(* Bounds and the values the user may type                                 *)
(***************************************************************************)
MaxTxIds == 2          \* transactions ever inserted
MaxTransfers == 2      \* bucket_transfers rows held at once
MaxCollections == 2    \* bucket_collections rows held or requested at once
MaxInflight == 2       \* requests in flight at once
MaxIncomeCents == 123456

\* a nullable value is <<>> (null) or <<v>>
Null == <<>>
Some(v) == <<v>>

\* what Number(text) yields for a text field: kind "empty" is the empty text (0),
\* "nan" a text that is no number, "inf" the text Infinity, "num" a number of v mills
Empty == [kind |-> "empty", v |-> 0]
NotANumber == [kind |-> "nan", v |-> 0]
Infinity == [kind |-> "inf", v |-> 0]
Num(n) == [kind |-> "num", v |-> n]

\* !text || Number.isNaN(n) || n <= 0
NotPositive(x) == x.kind \in {"empty", "nan"} \/ (x.kind = "num" /\ x.v <= 0)

WeekStartChoices == {0, 3}
IncomeInputs == {Num(0), Num(133330)}
\* nothing, 0.001, 0.005 and 50.00
CoverAmountInputs == {Empty, Num(1), Num(5), Num(50000)}
\* the select of a target offers "" and the buckets of coverOptions, and keeps a
\* choice made in an earlier render; no choice, wants and emergency are tried
CoverSources(target) == {"", "wants", "emergency"} \ {target}
\* the transactions entered while the ledger is exercised
LedgerTxBuckets == {"expenses"}
LedgerTxAmounts == {Num(61670)}
LedgerLabels == {<<"g">>}
\* what is collected and covered from while collections are exercised
CollectWeeks == {0}
CollectIncomes == {Num(133330)}
CollectBuckets == {"save", "wants"}
\* the transactions entered and edited while categories are exercised
EditWeeks == {0}
EditTxBuckets == {"wants", "student loans"}
EditTxDates == {0}
EditTxTypes == {"expense"}
EditTxAmounts == {NotANumber, Num(200)}
EditLabels == {<<>>, <<"g">>, <<" ", "a", ":", ":", "b">>}

(***************************************************************************)
(* Store operations                                                        *)
(***************************************************************************)
NoRows == <<>>

BagAdd(B, e) == IF e \in DOMAIN B THEN [B EXCEPT ![e] = @ + 1] ELSE B @@ (e :> 1)

BagSize(B) == SumFn([e \in DOMAIN B |-> B[e]])

\* .eq("week_start", ws) on a table
OfWeek(B, ws) == BagWhere(B, LAMBDA r : r.week_start = ws)
NotOfWeek(B, ws) == BagWhere(B, LAMBDA r : r.week_start # ws)

\* .eq("week_start", ws).eq("bucket", bucket) on bucket_collections
OfWeekBucket(B, ws, bucket) ==
    BagWhere(B, LAMBDA r : r.week_start = ws /\ r.bucket = Chars(bucket))

\* the store holds a bucket_collections row for (week, bucket)
HasCollection(T, ws, bucket) ==
    \E r \in DOMAIN T : r.week_start = ws /\ r.bucket = Chars(bucket)

\* new Set(c.map((x) => x.bucket)) of the week's rows, as far as it is ever asked:
\* collectedSet.has is called for the five buckets only
collectedBuckets(T, ws) == {b \in BucketSet : HasCollection(T, ws, b)}

(***************************************************************************)
(* loadWeekAll: every select answers with the store's rows                 *)
(***************************************************************************)
loadWeekAll(ws) ==
    LET we == addDaysISO(ws, 6)
        b  == OfWeek(tbl_budgets', ws)
    IN  /\ errorMsg' = NULL
        /\ categoryMap' = tbl_category_map'
        /\ weeklyIncome' = IF ws \in DOMAIN tbl_weekly_income'
                           THEN Some(tbl_weekly_income'[ws]) ELSE Null
        /\ weekStart' = Some(ws)
        /\ IF DOMAIN b = {}
           THEN /\ budgets' = NoRows
                /\ transactions' = {}
                /\ collectedSet' = {}
                /\ transfers' = NoRows
           ELSE /\ budgets' = b
                /\ transactions' = {t \in tbl_transactions' : t.date >= ws /\ t.date <= we}
                /\ collectedSet' = collectedBuckets(tbl_bucket_collections', ws)
                /\ transfers' = OfWeek(tbl_bucket_transfers', ws)

(***************************************************************************)
(* Initial state: the Dashboard as constructed, over a store that is empty *)
(* or holds one legacy (unlocked) transaction from before categories were  *)
(* bucket-locked, mapped or not                                            *)
(***************************************************************************)
LegacyCategory == <<"g", "a", "s">>
LegacyTx == [id |-> 0, date |-> 0, amount |-> -200, category |-> LegacyCategory]

\* the Savings and Home pages as constructed, over a store with no goals
InitPages ==
    /\ savingsRows = NoRows
    /\ selectedWeek = Null
    /\ homeRows = NoRows
    /\ goals = {}
    /\ tbl_user_goals = {}
    /\ nextGoalId = 0
    /\ donut = [current |-> 0, target |-> 0, rendered |-> FALSE,
                pct |-> [num |-> 0, den |-> 1], remaining |-> 0]

\* the mounted CollectButtons; a button shown in two tabs is two of them
ButtonInstances == {1, 2, 3}

\* useState(false) of each CollectButton, and the collections table
InitButtons ==
    /\ tbl_collections = {}
    /\ isCollected = [i \in ButtonInstances |-> FALSE]

InitDashboard ==
    /\ weekStart = Null
    /\ weeklyIncome = Null
    /\ budgets = NoRows
    /\ transactions = {}
    /\ transfers = NoRows
    /\ collectedSet = {}
    /\ categoryMap = NoRows
    /\ errorMsg = NULL
    /\ coveringBucket = NULL
    /\ inflight = <<>>
    /\ lastOp = [op |-> "none"]

InitStore ==
    /\ tbl_weekly_income = NoRows
    /\ tbl_budgets = NoRows
    /\ tbl_bucket_transfers = NoRows
    /\ tbl_bucket_collections = NoRows
    /\ \E legacy \in {"none", "unmapped", "mapped"} :
          /\ tbl_transactions = IF legacy = "none" THEN {} ELSE {LegacyTx}
          /\ tbl_category_map = IF legacy = "mapped" THEN (LegacyCategory :> "wants") ELSE NoRows
          /\ nextId = IF legacy = "none" THEN 0 ELSE 1

Init ==
    /\ tzEast \in BOOLEAN
    /\ InitStore
    /\ InitDashboard
    /\ InitButtons
    /\ InitPages
    /\ allocIncome = 0
    /\ allocInserts = <<>>

(***************************************************************************)
(* View week / Today's week / the mount effect                             *)
(***************************************************************************)
ViewWeek(ws) ==
    /\ inflight = <<>>
    /\ UNCHANGED <<storeVars, tzEast, coveringBucket, inflight, allocVars, libVars, savingsVars, homeVars>>
    /\ loadWeekAll(ws)
    /\ lastOp' = [op |-> "other"]

(***************************************************************************)
(* rebuildBudgetsForWeek and addNewWeekFromIncome                          *)
(***************************************************************************)
\* rebuildBudgetsForWeek whose delete of bucket_transfers is not narrowed to the week
rebuildBudgetsForWeekAllTransfers(ws, income) ==
    /\ tbl_weekly_income' =
          [w \in DOMAIN tbl_weekly_income \cup {ws} |->
              IF w = ws THEN clamp2(income) ELSE tbl_weekly_income[w]]
    /\ tbl_budgets' =
          NotOfWeek(tbl_budgets, ws) (+) BagOfSeq(buildBudgetInsertsExactTotal(ws, income))
    /\ tbl_bucket_transfers' = NoRows
    /\ UNCHANGED <<tbl_bucket_collections, tbl_transactions, tbl_category_map, nextId>>

rebuildBudgetsForWeek(ws, income) ==
    /\ tbl_weekly_income' =
          [w \in DOMAIN tbl_weekly_income \cup {ws} |->
              IF w = ws THEN clamp2(income) ELSE tbl_weekly_income[w]]
    /\ tbl_budgets' =
          NotOfWeek(tbl_budgets, ws) (+) BagOfSeq(buildBudgetInsertsExactTotal(ws, income))
    /\ tbl_bucket_transfers' = NotOfWeek(tbl_bucket_transfers, ws)
    /\ UNCHANGED <<tbl_bucket_collections, tbl_transactions, tbl_category_map, nextId>>

\* an income of kind "inf" passes the validation; what the store answers to it
\* is not modelled, the handler takes no step on it
addNewWeekFromIncome(incomeInput, ws) ==
    /\ inflight = <<>>
    /\ UNCHANGED <<tzEast, coveringBucket, inflight, allocVars, libVars, savingsVars, homeVars>>
    /\ IF NotPositive(incomeInput)
       THEN /\ errorMsg' = "Income must be a number greater than 0."
            /\ UNCHANGED <<storeVars, weekVars>>
            /\ lastOp' = [op |-> "other"]
       ELSE /\ incomeInput.kind = "num"
            /\ rebuildBudgetsForWeek(ws, incomeInput.v)
            /\ loadWeekAll(ws)
            /\ lastOp' = [op |-> "rebuildBudgetsForWeek", ws |-> ws,
                          hadTransfers |-> DOMAIN OfWeek(tbl_bucket_transfers, ws) # {}]

(***************************************************************************)
(* Transactions                                                            *)
(***************************************************************************)
\* upsertMapping followed by its loadCategoryMap
upsertMapping(raw_category, bucket) ==
    tbl_category_map' =
        [r \in DOMAIN tbl_category_map \cup {raw_category} |->
            IF r = raw_category THEN bucket ELSE tbl_category_map[r]]

\* the form's validation in addTransactionForBucket: the message, NULL when it passes
addTransactionError(txDate, txAmount, raw) ==
    IF weekStart = Null THEN "Choose or create a week first."
    ELSE IF raw = <<>> THEN "Category name is required (ex: Crumbl, Gas, Rent)."
    ELSE IF NotPositive(txAmount) THEN "Amount must be a number greater than 0."
    ELSE IF ~isISOInRange(txDate, weekStart[1], addDaysISO(weekStart[1], 6))
         THEN "That date is not in this week."
    ELSE NULL

addTransactionForBucket(bucket, txDate, txType, txAmount, txRawCategory) ==
    LET raw == trim(txRawCategory)
        err == addTransactionError(txDate, txAmount, raw)
        signedAmount == IF txType = "expense" THEN -txAmount.v ELSE txAmount.v
        storedCategory == makeStoredCategory(bucket, raw)
    IN  /\ inflight = <<>>
        /\ weekStart # Null
        /\ UNCHANGED <<tzEast, coveringBucket, inflight, allocVars, libVars, savingsVars, homeVars>>
        /\ IF err # NULL
           THEN /\ errorMsg' = err
                /\ UNCHANGED <<storeVars, weekVars>>
                /\ lastOp' = [op |-> "other"]
           ELSE /\ txAmount.kind = "num"
                /\ nextId < MaxTxIds
                /\ tbl_transactions' = tbl_transactions \cup
                      {[id |-> nextId, date |-> txDate, amount |-> signedAmount,
                        category |-> storedCategory]}
                /\ nextId' = nextId + 1
                /\ UNCHANGED <<tbl_weekly_income, tbl_budgets, tbl_bucket_transfers,
                               tbl_bucket_collections, tbl_category_map>>
                /\ loadWeekAll(weekStart[1])
                /\ lastOp' = [op |-> "other"]

\* the form's validation in updateTransaction
updateTransactionError(editDate, editAmount, raw) ==
    IF NotPositive(editAmount) THEN "Amount must be a number greater than 0."
    ELSE IF raw = <<>> THEN "Raw category is required."
    ELSE IF weekStart # Null
            /\ ~isISOInRange(editDate, weekStart[1], addDaysISO(weekStart[1], 6))
         THEN "That date is not in this week."
    ELSE NULL

\* updateTransaction that stores the typed label alone
nextCategoryUnlocked(lockedBucket, raw) == raw

\* the category updateTransaction stores
nextCategory(lockedBucket, raw) ==
    IF lockedBucket # NULL THEN makeStoredCategory(lockedBucket, raw) ELSE raw

\* tx is a transaction shown in a bucket's list
updateTransaction(tx, editDate, editType, editAmount, editRawCategory) ==
    LET raw == trim(editRawCategory)
        err == updateTransactionError(editDate, editAmount, raw)
        signedAmount == IF editType = "expense" THEN -editAmount.v ELSE editAmount.v
        lockedBucket == splitStoredCategory(tx.category).bucket
        currentBucket == IF tx.category \in DOMAIN mapDict THEN mapDict[tx.category] ELSE NULL
        remap == /\ lockedBucket = NULL
                 /\ currentBucket # NULL
                 /\ (raw \notin DOMAIN mapDict \/ mapDict[raw] # currentBucket)
    IN  /\ inflight = <<>>
        /\ tx \in transactions
        /\ BucketOfTx(tx, mapDict) # NULL
        /\ UNCHANGED <<tzEast, coveringBucket, inflight, allocVars, libVars, savingsVars, homeVars>>
        /\ IF err # NULL
           THEN /\ errorMsg' = err
                /\ UNCHANGED <<storeVars, weekVars>>
                /\ lastOp' = [op |-> "other"]
           ELSE /\ editAmount.kind = "num"
                /\ IF remap THEN upsertMapping(raw, currentBucket)
                            ELSE UNCHANGED tbl_category_map
                /\ tbl_transactions' =
                      {IF t.id = tx.id
                       THEN [id |-> t.id, date |-> editDate, amount |-> signedAmount,
                             category |-> nextCategory(lockedBucket, raw)]
                       ELSE t : t \in tbl_transactions}
                /\ UNCHANGED <<tbl_weekly_income, tbl_budgets, tbl_bucket_transfers,
                               tbl_bucket_collections, nextId>>
                /\ IF weekStart # Null
                   THEN loadWeekAll(weekStart[1])
                   ELSE /\ errorMsg' = NULL
                        /\ categoryMap' = tbl_category_map'
                        /\ UNCHANGED <<weekStart, weeklyIncome, budgets, transactions,
                                       transfers, collectedSet>>
                /\ lastOp' = [op |-> "updateTransaction", id |-> tx.id,
                              before |-> tx.category, raw |-> raw]

deleteTransaction(tx) ==
    /\ inflight = <<>>
    /\ tx \in transactions
    /\ BucketOfTx(tx, mapDict) # NULL
    /\ UNCHANGED <<tzEast, coveringBucket, inflight, allocVars, libVars, savingsVars, homeVars>>
    /\ tbl_transactions' = {t \in tbl_transactions : t.id # tx.id}
    /\ UNCHANGED <<tbl_weekly_income, tbl_budgets, tbl_bucket_transfers,
                   tbl_bucket_collections, tbl_category_map, nextId>>
    /\ IF weekStart # Null
       THEN loadWeekAll(weekStart[1])
       ELSE /\ errorMsg' = NULL
            /\ UNCHANGED weekVars
    /\ lastOp' = [op |-> "other"]

\* raw_category is one of the unmapped categories listed for assignment
saveMapping(raw_category, bucket) ==
    /\ inflight = <<>>
    /\ raw_category \in unmappedCategories
    /\ UNCHANGED <<tzEast, coveringBucket, inflight, allocVars, libVars, savingsVars, homeVars>>
    /\ upsertMapping(raw_category, bucket)
    /\ UNCHANGED <<tbl_weekly_income, tbl_budgets, tbl_bucket_transfers,
                   tbl_bucket_collections, tbl_transactions, nextId>>
    /\ IF weekStart # Null
       THEN loadWeekAll(weekStart[1])
       ELSE /\ errorMsg' = NULL
            /\ categoryMap' = tbl_category_map'
            /\ UNCHANGED <<weekStart, weeklyIncome, budgets, transactions,
                           transfers, collectedSet>>
    /\ lastOp' = [op |-> "other"]

(***************************************************************************)
(* Collect and Undo.  collectBucket awaits the store between the click and *)
(* its setCollectedSet, and the Collect button stays enabled meanwhile:    *)
(* the click and the answered insert are two steps, with the request in    *)
(* flight between them.  While a request is in flight only further Collect *)
(* clicks are taken.                                                       *)
(***************************************************************************)
\* the Collect button of a bucket is rendered and enabled
canClickCollect(r, bucket) ==
    /\ weekStart # Null
    /\ bucket \notin collectedSet
    /\ r[bucket].variance > 0

\* the Undo button of a bucket is rendered
canClickUndo(bucket) ==
    /\ weekStart # Null
    /\ bucket \in collectedSet

\* onClick={() => collectBucket(r.category, r.variance)}, up to the insert it sends
collectBucket(bucket, amount) ==
    /\ Len(inflight) < MaxInflight
    /\ BagSize(tbl_bucket_collections) + Len(inflight) < MaxCollections
    /\ errorMsg' = NULL
    /\ inflight' = IF amount <= 0 THEN inflight
                   ELSE Append(inflight, [week_start |-> weekStart[1], bucket |-> bucket,
                                          amount |-> clamp2(amount)])
    /\ lastOp' = [op |-> "other"]
    /\ UNCHANGED <<storeVars, weekVars, tzEast, coveringBucket, allocVars, libVars, savingsVars, homeVars>>

\* the insert of collectBucket reaches the store and the handler goes on
collectInsert(ws, bucket, amount) ==
    /\ tbl_bucket_collections' =
          BagAdd(tbl_bucket_collections,
                 [week_start |-> ws, bucket |-> Chars(bucket), amount |-> amount])
    /\ collectedSet' = collectedSet \cup {bucket}

\* the i-th request in flight is answered
collectBucketAnswered(i) ==
    LET q == inflight[i]
    IN  /\ collectInsert(q.week_start, q.bucket, q.amount)
        /\ inflight' = SubSeq(inflight, 1, i - 1) \o SubSeq(inflight, i + 1, Len(inflight))
        /\ lastOp' = [op |-> "collectBucket", bucket |-> q.bucket,
                      wasCollected |-> q.bucket \in collectedSet,
                      available |-> availableFromBucket(rows, q.bucket),
                      stored |-> OfWeekBucket(tbl_bucket_collections, q.week_start, q.bucket)]
        /\ UNCHANGED <<tbl_weekly_income, tbl_budgets, tbl_bucket_transfers,
                       tbl_transactions, tbl_category_map, nextId>>
        /\ UNCHANGED <<weekStart, weeklyIncome, budgets, transactions, transfers, categoryMap>>
        /\ UNCHANGED <<tzEast, errorMsg, coveringBucket, allocVars, libVars, savingsVars, homeVars>>

\* undoCollect that forgets the bucket locally and leaves the store's rows
undoDeleteLocalOnly(ws, bucket) ==
    /\ tbl_bucket_collections' = tbl_bucket_collections
    /\ collectedSet' = collectedSet \ {bucket}

\* the delete of undoCollect and what follows its answer
undoDelete(ws, bucket) ==
    /\ tbl_bucket_collections' =
          BagWhere(tbl_bucket_collections,
                   LAMBDA r : ~(r.week_start = ws /\ r.bucket = Chars(bucket)))
    /\ collectedSet' = collectedSet \ {bucket}

undoCollect(bucket) ==
    /\ inflight = <<>>
    /\ canClickUndo(bucket)
    /\ UNCHANGED <<tzEast, coveringBucket, inflight, allocVars, libVars, savingsVars, homeVars>>
    /\ errorMsg' = NULL
    /\ UNCHANGED <<tbl_weekly_income, tbl_budgets, tbl_bucket_transfers,
                   tbl_transactions, tbl_category_map, nextId>>
    /\ UNCHANGED <<weekStart, weeklyIncome, budgets, transactions, transfers, categoryMap>>
    /\ undoDelete(weekStart[1], bucket)
    /\ lastOp' =
          IF lastOp.op = "collectBucket" /\ lastOp.bucket = bucket
          THEN [op |-> "undoCollect", bucket |-> bucket, afterCollect |-> TRUE,
                wasCollected |-> lastOp.wasCollected,
                available |-> lastOp.available, stored |-> lastOp.stored]
          ELSE [op |-> "undoCollect", bucket |-> bucket, afterCollect |-> FALSE,
                wasCollected |-> TRUE, available |-> 0, stored |-> NoRows]

(***************************************************************************)
(* Cover overspend                                                         *)
(***************************************************************************)
\* coverOverspend that sends the typed amount without clamping it
coverDecideUnclamped(targetBucket, from, want, variance, remainingOver, available) ==
    LET amt0  == IF want.kind = "empty" THEN MathMin(remainingOver, available) ELSE want.v
        valid == want.kind \in {"empty", "num"} /\ amt0 > 0
    IN  [reject |->
            IF weekStart = Null THEN "No active week."
            ELSE IF variance >= 0 THEN "silent"
            ELSE IF from = "" THEN "Choose a source bucket to cover from."
            ELSE IF from = targetBucket THEN "Source and target can't be the same."
            ELSE IF available <= 0 THEN "That source bucket has no available money."
            ELSE IF ~valid THEN "Enter a valid cover amount."
            ELSE NULL,
         amt |-> clamp2(amt0),
         remainingOver |-> remainingOver,
         available |-> available]

\* what coverOverspend decides before its first await, from the rendered state
\* (variance of the target row, available of the source): the message it rejects
\* with, or the amount it will insert
coverDecide(targetBucket, from, want, variance, remainingOver, available) ==
    LET amt0  == IF want.kind = "empty" THEN MathMin(remainingOver, available) ELSE want.v
        valid == want.kind \in {"empty", "num"} /\ amt0 > 0
    IN  [reject |->
            IF weekStart = Null THEN "No active week."
            ELSE IF variance >= 0 THEN "silent"
            ELSE IF from = "" THEN "Choose a source bucket to cover from."
            ELSE IF from = targetBucket THEN "Source and target can't be the same."
            ELSE IF available <= 0 THEN "That source bucket has no available money."
            ELSE IF ~valid THEN "Enter a valid cover amount."
            ELSE NULL,
         amt |-> clamp2(MathMin(amt0, MathMin(remainingOver, available))),
         remainingOver |-> remainingOver,
         available |-> available]

coverDecision(r, targetBucket, from, want) ==
    coverDecide(targetBucket, from, want, r[targetBucket].variance,
                clamp2(MathAbs(r[targetBucket].variance)), availableFromBucket(r, from))

\* the Cover button of a bucket is rendered and enabled
canClickCover(r, targetBucket) ==
    /\ weekStart # Null
    /\ r[targetBucket].variance < 0
    /\ coveringBucket # targetBucket
    /\ coverOptions(r, targetBucket) # {}

\* from and want are coverSource[targetBucket] and coverAmount[targetBucket]
coverOverspend(r, targetBucket, from, want) ==
    \E d \in {coverDecision(r, targetBucket, from, want)} :
        /\ inflight = <<>>
        /\ UNCHANGED <<tzEast, coveringBucket, inflight, allocVars, libVars, savingsVars, homeVars>>
        /\ IF d.reject # NULL
           THEN /\ errorMsg' = IF d.reject = "silent" THEN NULL ELSE d.reject
                /\ UNCHANGED <<storeVars, weekVars>>
                /\ lastOp' = [op |-> "coverOverspend", inserted |-> FALSE]
           ELSE /\ BagSize(tbl_bucket_transfers) < MaxTransfers
                /\ tbl_bucket_transfers' =
                      BagAdd(tbl_bucket_transfers,
                             [week_start |-> weekStart[1], from_bucket |-> from,
                              to_bucket |-> targetBucket, amount |-> d.amt])
                /\ UNCHANGED <<tbl_weekly_income, tbl_budgets, tbl_bucket_collections,
                               tbl_transactions, tbl_category_map, nextId>>
                /\ loadWeekAll(weekStart[1])
                /\ lastOp' = [op |-> "coverOverspend", inserted |-> TRUE,
                              target |-> targetBucket, from |-> from, want |-> want,
                              remainingOver |-> d.remainingOver,
                              available |-> d.available, amt |-> d.amt,
                              fromCollected |->
                                  HasCollection(tbl_bucket_collections, weekStart[1], from)]

(***************************************************************************)
(* The allocation builder alone, over every income of 0.01 .. the bound    *)
(***************************************************************************)
InitEmptyStore ==
    /\ tbl_weekly_income = NoRows
    /\ tbl_budgets = NoRows
    /\ tbl_bucket_transfers = NoRows
    /\ tbl_bucket_collections = NoRows
    /\ tbl_transactions = {}
    /\ tbl_category_map = NoRows
    /\ nextId = 0

InitAlloc ==
    /\ tzEast = FALSE
    /\ InitEmptyStore
    /\ InitDashboard
    /\ InitButtons
    /\ InitPages
    /\ allocIncome \in 1..MaxIncomeCents
    /\ allocInserts = <<>>

AllocBuild ==
    /\ allocInserts = <<>>
    /\ allocInserts' = buildBudgetInsertsExactTotal(0, centsToNumber(allocIncome))
    /\ UNCHANGED <<tzEast, storeVars, weekVars, errorMsg, coveringBucket, inflight,
                   lastOp, allocIncome,
                   libVars, savingsVars, homeVars>>

NextAlloc == AllocBuild

SpecAlloc == InitAlloc /\ [][NextAlloc]_vars

\* C1: for every income of a whole number of cents, the five amounts are whole
\* cents, one per bucket in BUCKETS order, and sum in cents to round(income * 100)
C1_SumExact ==
    allocInserts # <<>> =>
        /\ Len(allocInserts) = Len(BUCKETS)
        /\ \A i \in 1..Len(BUCKETS) :
              /\ allocInserts[i].category = BUCKETS[i]
              /\ allocInserts[i].amount % 10 = 0
        /\ SumFn([i \in DOMAIN allocInserts |-> allocInserts[i].amount \div 10])
              = toCents(centsToNumber(allocIncome))
        /\ toCents(centsToNumber(allocIncome)) = allocIncome

\* income 0.01: every share rounds to 0 and the cent goes to expenses
C1_Witness ==
    /\ allocInserts # <<>>
    /\ allocIncome = 1
    /\ allocInserts[5].amount = 10

\* C2: save, wants, emergency and student loans get round(income_cents * pct)
\* cents, halves up, for 15%, 15%, 10%, 25%; expenses gets income_cents minus those
\* four; 33.33 gives 5.00, 5.00, 3.33, 8.33, 11.67 and 100.00 gives 15, 15, 10, 25, 35
C2_RoundedShares ==
    allocInserts # <<>> =>
        LET ic == allocIncome
            share(p) == (ic * p + 50) \div 100
            four == share(15) + share(15) + share(10) + share(25)
            amounts == [i \in DOMAIN allocInserts |-> allocInserts[i].amount]
        IN  /\ [i \in DOMAIN allocInserts |-> allocInserts[i].category]
                  = <<"save", "wants", "emergency", "student loans", "expenses">>
            /\ amounts = <<10 * share(15), 10 * share(15), 10 * share(10),
                           10 * share(25), 10 * (ic - four)>>
            /\ (ic = 3333 => amounts = <<5000, 5000, 3330, 8330, 11670>>)
            /\ (ic = 10000 => amounts = <<15000, 15000, 10000, 25000, 35000>>)

\* income 33.33 allocated, three of its shares rounded up from a half or more
C2_Witness ==
    /\ allocInserts # <<>>
    /\ allocIncome = 3333
    /\ allocInserts[1].amount = 5000
    /\ allocInserts[5].amount = 11670

(***************************************************************************)
(* The Dashboard, one handler at a time, the ledger exercised: weeks are   *)
(* added and viewed, expenses entered under the form's default date and    *)
(* overspends covered                                                      *)
(***************************************************************************)
InitLedger ==
    /\ tzEast = FALSE
    /\ InitEmptyStore
    /\ InitDashboard
    /\ InitButtons
    /\ InitPages
    /\ allocIncome = 0
    /\ allocInserts = <<>>

Next ==
    \/ \E ws \in WeekStartChoices : ViewWeek(ws)
    \/ \E incomeInput \in IncomeInputs, ws \in WeekStartChoices :
          addNewWeekFromIncome(incomeInput, ws)
    \/ \E bucket \in LedgerTxBuckets, a \in LedgerTxAmounts, l \in LedgerLabels :
          /\ weekStart # Null
          /\ addTransactionForBucket(bucket, weekStart[1], "expense", a, l)
    \/ \E r \in {rows} : \E target \in BucketSet :
          /\ canClickCover(r, target)
          /\ \E from \in CoverSources(target), want \in CoverAmountInputs :
                coverOverspend(r, target, from, want)

Spec == InitLedger /\ [][Next]_vars

\* the last handler was a coverOverspend that inserted a transfer
CoverInserted == lastOp.op = "coverOverspend" /\ lastOp.inserted

\* C3: after any sequence of add-week, cover and reload, the budgeted amount shown
\* for each bucket of the viewed week is the sum of the store's budgets rows of
\* that week and bucket, plus the week's transfers into it, minus those out of it
C3_BudgetedFromStore ==
    weekStart # Null =>
        \A r \in {rows} : \A b \in BucketSet :
            r[b].budgeted =
                BagTotal(BagWhere(tbl_budgets,
                                  LAMBDA x : x.week_start = weekStart[1] /\ x.category = b),
                         LAMBDA x : x.amount)
                + BagTotal(BagWhere(tbl_bucket_transfers,
                                    LAMBDA x : x.week_start = weekStart[1] /\ x.to_bucket = b),
                           LAMBDA x : x.amount)
                - BagTotal(BagWhere(tbl_bucket_transfers,
                                    LAMBDA x : x.week_start = weekStart[1] /\ x.from_bucket = b),
                           LAMBDA x : x.amount)

\* a week is shown whose transfer has lowered the budgeted amount of its source
C3_Witness ==
    /\ weekStart # Null
    /\ CoverInserted
    /\ \E tr \in DOMAIN tbl_bucket_transfers :
          /\ tr.week_start = weekStart[1]
          /\ tr.amount > 0
          /\ rows[tr.from_bucket].budgeted < baseBudgetByBucket(budgets, tr.from_bucket)
          /\ rows[tr.to_bucket].budgeted > baseBudgetByBucket(budgets, tr.to_bucket)

\* C4: a cover that inserts a transfer uses an amount at most the deficit, at most
\* the source's available amount and at most the amount entered; with no amount
\* entered it is min(deficit, available): wants at +20.00 covering expenses at
\* -15.00 transfers 15.00 and leaves wants at +5.00 and expenses at 0.00
C4_CoverAmountWithinLimits ==
    CoverInserted =>
        /\ lastOp.amt <= lastOp.remainingOver
        /\ lastOp.amt <= lastOp.available
        /\ (lastOp.want.kind = "num" => lastOp.amt <= lastOp.want.v)
        /\ (lastOp.want.kind = "empty" =>
               lastOp.amt = MathMin(lastOp.remainingOver, lastOp.available))
        /\ (/\ lastOp.want.kind = "empty"
            /\ lastOp.from = "wants" /\ lastOp.target = "expenses"
            /\ lastOp.available = 20000 /\ lastOp.remainingOver = 15000
            => /\ lastOp.amt = 15000
               /\ rows["wants"].variance = 5000
               /\ rows["expenses"].variance = 0)

\* C5: directly after a cover has inserted a transfer from a bucket and the week is
\* reloaded, that bucket's variance is not negative, and no bucket's available
\* amount is negative
C5_SourceNeverNegative ==
    \A r \in {rows} :
        /\ CoverInserted => r[lastOp.from].variance >= 0
        /\ weekStart # Null => \A b \in BucketSet : availableFromBucket(r, b) >= 0

\* a cover asked for more than its source had took all of it and left it at 0
C5_Witness ==
    /\ CoverInserted
    /\ lastOp.want.kind = "num"
    /\ lastOp.want.v > lastOp.available
    /\ lastOp.amt = lastOp.available
    /\ rows[lastOp.from].variance = 0

\* C6: every bucket_transfers row inserted by coverOverspend has amount > 0 and a
\* from_bucket different from its to_bucket
C6_TransfersPositiveDistinct ==
    \A tr \in DOMAIN tbl_bucket_transfers :
        /\ tr.amount > 0
        /\ tr.from_bucket # tr.to_bucket

(***************************************************************************)
(* The Dashboard with collections exercised: one week, its leftovers       *)
(* collected and given back, its overspend covered                         *)
(***************************************************************************)
NextCollect ==
    \/ \E ws \in CollectWeeks : ViewWeek(ws)
    \/ \E incomeInput \in CollectIncomes, ws \in CollectWeeks :
          addNewWeekFromIncome(incomeInput, ws)
    \/ \E bucket \in LedgerTxBuckets, a \in LedgerTxAmounts, l \in LedgerLabels :
          /\ weekStart # Null
          /\ addTransactionForBucket(bucket, weekStart[1], "expense", a, l)
    \/ \E r \in {rows} : \E bucket \in CollectBuckets :
          /\ canClickCollect(r, bucket)
          /\ collectBucket(bucket, r[bucket].variance)
    \/ \E i \in DOMAIN inflight : collectBucketAnswered(i)
    \/ \E bucket \in BucketSet : undoCollect(bucket)
    \/ \E r \in {rows} : \E target \in BucketSet :
          /\ canClickCover(r, target)
          /\ \E from \in CollectBuckets \ {target} : coverOverspend(r, target, from, Empty)

SpecCollect == InitLedger /\ [][NextCollect]_vars

\* C7: once a Collect has succeeded for a (week, bucket) no further Collect inserts
\* a row for it until an Undo has succeeded, and nothing is inserted for a
\* variance <= 0.  Only Collect inserts these rows and Undo deletes every row of
\* its (week, bucket): the store never holds two rows of one (week, bucket), nor
\* a row of amount <= 0
C7_NoSecondCollect ==
    \A x \in DOMAIN tbl_bucket_collections :
        /\ tbl_bucket_collections[x] = 1
        /\ x.amount > 0
        /\ \A y \in DOMAIN tbl_bucket_collections :
              (y.week_start = x.week_start /\ y.bucket = x.bucket) => y = x

\* the last handler was an Undo directly after the Collect of the same bucket
\* succeeded, the bucket having been uncollected with a positive variance
UndoAfterCollect ==
    /\ lastOp.op = "undoCollect"
    /\ lastOp.afterCollect
    /\ ~lastOp.wasCollected
    /\ lastOp.available > 0

\* C8: a successful Collect of an uncollected bucket with positive variance followed
\* at once by a successful Undo leaves the bucket out of the collected set, with
\* the available amount it had before the Collect and with the same
\* bucket_collections rows of its (week, bucket) in the store as before
C8_CollectUndoRoundTrip ==
    UndoAfterCollect =>
        /\ lastOp.bucket \notin collectedSet
        /\ availableFromBucket(rows, lastOp.bucket) = lastOp.available
        /\ OfWeekBucket(tbl_bucket_collections, weekStart[1], lastOp.bucket) = lastOp.stored

\* the round trip has happened, over a store that held no row of the bucket
C8_Witness ==
    /\ UndoAfterCollect
    /\ lastOp.stored = NoRows
    /\ ~HasCollection(tbl_bucket_collections, weekStart[1], lastOp.bucket)

\* C9: the available amount of a bucket is 0 when it is in the week's collected
\* set and max(0, variance) otherwise, and no cover inserts a transfer whose source
\* was collected for the week when the cover was asked for
C9_CollectedNotAvailable ==
    /\ weekStart # Null =>
          \A r \in {rows} : \A b \in BucketSet :
              availableFromBucket(r, b) =
                  IF b \in collectedSet THEN 0
                  ELSE IF r[b].variance > 0 THEN r[b].variance ELSE 0
    /\ CoverInserted => ~lastOp.fromCollected

\* a cover has inserted a transfer while another bucket with money left was collected
C9_Witness ==
    /\ CoverInserted
    /\ \E b \in collectedSet : rows[b].variance > 0 /\ availableFromBucket(rows, b) = 0

(***************************************************************************)
(* The Dashboard with categories exercised: transactions are entered,      *)
(* edited, deleted and mapped, over a store that may hold a legacy         *)
(* transaction                                                             *)
(***************************************************************************)
NextEdit ==
    \/ \E ws \in EditWeeks : ViewWeek(ws)
    \/ \E incomeInput \in CollectIncomes, ws \in EditWeeks :
          addNewWeekFromIncome(incomeInput, ws)
    \/ \E bucket \in EditTxBuckets, d \in EditTxDates, ty \in EditTxTypes,
          a \in EditTxAmounts, l \in EditLabels :
          addTransactionForBucket(bucket, d, ty, a, l)
    \/ \E tx \in transactions, d \in EditTxDates, ty \in EditTxTypes,
          a \in EditTxAmounts, l \in EditLabels :
          updateTransaction(tx, d, ty, a, l)
    \/ \E tx \in transactions : deleteTransaction(tx)
    \/ \E raw \in unmappedCategories, bucket \in EditTxBuckets : saveMapping(raw, bucket)

SpecEdit == Init /\ [][NextEdit]_vars

\* the last handler was an updateTransaction that stored its edit of a transaction
\* whose category was locked to a bucket
LockedEdited ==
    /\ lastOp.op = "updateTransaction"
    /\ splitStoredCategory(lastOp.before).bucket # NULL

\* C10: an updateTransaction that succeeds on a transaction with a locked category
\* (bucket::label) leaves it locked to the same bucket, with the new non-empty
\* label as its label, also when the new label holds "::"
C10_LockedBucketKept ==
    LockedEdited =>
        \E t \in tbl_transactions :
            /\ t.id = lastOp.id
            /\ splitStoredCategory(t.category).bucket = splitStoredCategory(lastOp.before).bucket
            /\ splitStoredCategory(t.category).raw = lastOp.raw
            /\ lastOp.raw # <<>>

\* a locked transaction was given a label that holds "::"
C10_Witness ==
    /\ LockedEdited
    /\ indexOf(lastOp.raw, TX_BUCKET_DELIM) > 0

(***************************************************************************)
(* The Dashboard over a store whose requests may answer with an error.     *)
(* The handlers above are these with every request answered well; here the *)
(* request named by the last argument fails.  A number that is not finite  *)
(* is sent as JSON null, and Number(null) is 0 when the row is read back:  *)
(* such an amount is held as 0.                                            *)
(***************************************************************************)
StoreError == "store error"

RebuildFailures == {"none", "upsert", "deleteTransfers", "insert"}
ReadFailures == {"none", "budgets", "collections", "transfers"}
FailIncomeInputs == {Num(0), Infinity, Num(133330)}

\* loadWeekAll where the select named by readFail answers with an error
loadWeekAllStore(ws, readFail) ==
    LET we == addDaysISO(ws, 6)
        b  == OfWeek(tbl_budgets', ws)
    IN  /\ categoryMap' = tbl_category_map'
        /\ weeklyIncome' = IF ws \in DOMAIN tbl_weekly_income'
                           THEN Some(tbl_weekly_income'[ws]) ELSE Null
        /\ IF readFail = "budgets"
           THEN /\ errorMsg' = StoreError
                /\ weekStart' = Null
                /\ budgets' = NoRows
                /\ transactions' = {}
                /\ collectedSet' = {}
                /\ transfers' = NoRows
           ELSE /\ weekStart' = Some(ws)
                /\ IF DOMAIN b = {}
                   THEN /\ errorMsg' = NULL
                        /\ budgets' = NoRows
                        /\ transactions' = {}
                        /\ collectedSet' = {}
                        /\ transfers' = NoRows
                   ELSE /\ budgets' = b
                        /\ transactions' =
                              {t \in tbl_transactions' : t.date >= ws /\ t.date <= we}
                        /\ collectedSet' =
                              IF readFail = "collections" THEN {}
                              ELSE collectedBuckets(tbl_bucket_collections', ws)
                        /\ transfers' =
                              IF readFail = "transfers" THEN NoRows
                              ELSE OfWeek(tbl_bucket_transfers', ws)
                        /\ errorMsg' = IF readFail = "transfers" THEN StoreError ELSE NULL

ViewWeekStore(ws, readFail) ==
    /\ inflight = <<>>
    /\ UNCHANGED <<storeVars, tzEast, coveringBucket, inflight, allocVars, libVars, savingsVars, homeVars>>
    /\ loadWeekAllStore(ws, readFail)
    /\ lastOp' = [op |-> "other"]

\* rebuildBudgetsForWeek where the request named by fail answers with an error;
\* income is the amount in mills, 0 for one that is not finite
rebuildBudgetsForWeekStore(ws, income, fail) ==
    /\ tbl_weekly_income' =
          IF fail = "upsert" THEN tbl_weekly_income
          ELSE [w \in DOMAIN tbl_weekly_income \cup {ws} |->
                   IF w = ws THEN clamp2(income) ELSE tbl_weekly_income[w]]
    /\ tbl_budgets' =
          IF fail = "upsert" THEN tbl_budgets
          ELSE IF fail = "insert" THEN NotOfWeek(tbl_budgets, ws)
          ELSE NotOfWeek(tbl_budgets, ws) (+) BagOfSeq(buildBudgetInsertsExactTotal(ws, income))
    /\ tbl_bucket_transfers' =
          IF fail \in {"upsert", "deleteTransfers"} THEN tbl_bucket_transfers
          ELSE NotOfWeek(tbl_bucket_transfers, ws)
    /\ UNCHANGED <<tbl_bucket_collections, tbl_transactions, tbl_category_map, nextId>>

\* addNewWeekFromIncome over the failing store: fail names the request of
\* rebuildBudgetsForWeek that fails
addNewWeekFromIncomeStore(incomeInput, ws, fail) ==
    /\ inflight = <<>>
    /\ UNCHANGED <<tzEast, coveringBucket, inflight, allocVars, libVars, savingsVars, homeVars>>
    /\ IF NotPositive(incomeInput)
       THEN /\ errorMsg' = "Income must be a number greater than 0."
            /\ UNCHANGED <<storeVars, weekVars>>
            /\ lastOp' = [op |-> "addNewWeekFromIncome", incomeInput |-> incomeInput,
                          upsertSent |-> FALSE]
       ELSE /\ rebuildBudgetsForWeekStore(ws, incomeInput.v, fail)
            /\ IF fail \in {"upsert", "insert"}
               THEN /\ errorMsg' = StoreError
                    /\ UNCHANGED weekVars
               ELSE loadWeekAll(ws)
            /\ lastOp' = [op |-> "addNewWeekFromIncome", incomeInput |-> incomeInput,
                          upsertSent |-> TRUE]

\* the i-th request in flight is answered, with an error when ~ok
collectBucketAnsweredStore(i, ok) ==
    IF ok THEN collectBucketAnswered(i)
    ELSE /\ inflight' = SubSeq(inflight, 1, i - 1) \o SubSeq(inflight, i + 1, Len(inflight))
         /\ errorMsg' = StoreError
         /\ lastOp' = [op |-> "collectBucketFailed", bucket |-> inflight[i].bucket,
                       before |-> collectedSet]
         /\ UNCHANGED <<storeVars, weekVars, tzEast, coveringBucket, allocVars, libVars, savingsVars, homeVars>>

\* undoCollect whose delete is answered with an error when ~ok
undoCollectStore(bucket, ok) ==
    IF ok THEN undoCollect(bucket)
    ELSE /\ inflight = <<>>
         /\ canClickUndo(bucket)
         /\ errorMsg' = StoreError
         /\ lastOp' = [op |-> "undoCollectFailed", bucket |-> bucket,
                       before |-> collectedSet]
         /\ UNCHANGED <<storeVars, weekVars, tzEast, coveringBucket, inflight, allocVars, libVars, savingsVars, homeVars>>

NextFail ==
    \/ \E ws \in CollectWeeks, readFail \in ReadFailures : ViewWeekStore(ws, readFail)
    \/ \E incomeInput \in FailIncomeInputs, ws \in CollectWeeks, fail \in RebuildFailures :
          addNewWeekFromIncomeStore(incomeInput, ws, fail)
    \/ \E r \in {rows} : \E bucket \in CollectBuckets :
          /\ canClickCollect(r, bucket)
          /\ collectBucket(bucket, r[bucket].variance)
    \/ \E i \in DOMAIN inflight, ok \in BOOLEAN : collectBucketAnsweredStore(i, ok)
    \/ \E bucket \in BucketSet, ok \in BOOLEAN : undoCollectStore(bucket, ok)

SpecFail == InitLedger /\ [][NextFail]_vars

\* C11: in every store state, also after a request of rebuildBudgetsForWeek has
\* failed, each week has either no weekly_income row and no budgets rows, or one
\* weekly_income row and exactly five budgets rows, one per bucket
C11_IncomeWithFullBudgetSet ==
    \A ws \in CollectWeeks :
        LET bs == OfWeek(tbl_budgets, ws)
        IN  IF ws \in DOMAIN tbl_weekly_income
            THEN /\ BagSize(bs) = Len(BUCKETS)
                 /\ \A b \in BucketSet : \E x \in DOMAIN bs : x.category = b
            ELSE DOMAIN bs = {}

(***************************************************************************)
(* The Dashboard over a store that holds two legacy transactions, from     *)
(* before categories were stored as "bucket::raw": an expense labelled     *)
(* "gas", mapped or not, and an income labelled "pay" that the category    *)
(* map puts in a bucket                                                    *)
(***************************************************************************)
LegacyIncomeCategory == <<"p", "a", "y">>
LegacyIncomeTx == [id |-> -1, date |-> 0, amount |-> 500, category |-> LegacyIncomeCategory]

LegacyTxTypes == {"expense", "income"}
LegacyTxAmounts == {Num(200)}
LegacyLabels == {LegacyCategory, LegacyIncomeCategory}
LegacyBuckets == {"wants", "expenses"}

InitLegacyStore ==
    /\ tbl_weekly_income = NoRows
    /\ tbl_budgets = NoRows
    /\ tbl_bucket_transfers = NoRows
    /\ tbl_bucket_collections = NoRows
    /\ tbl_transactions = {LegacyTx, LegacyIncomeTx}
    /\ \E gas \in {"unmapped", "mapped"} :
          tbl_category_map =
              IF gas = "mapped"
              THEN (LegacyIncomeCategory :> "wants") @@ (LegacyCategory :> "expenses")
              ELSE (LegacyIncomeCategory :> "wants")
    /\ nextId = 1

InitLegacy ==
    /\ tzEast \in BOOLEAN
    /\ InitLegacyStore
    /\ InitDashboard
    /\ InitButtons
    /\ InitPages
    /\ allocIncome = 0
    /\ allocInserts = <<>>

NextLegacy ==
    \/ \E ws \in EditWeeks : ViewWeek(ws)
    \/ \E incomeInput \in CollectIncomes, ws \in EditWeeks :
          addNewWeekFromIncome(incomeInput, ws)
    \/ \E bucket \in LegacyBuckets, d \in EditTxDates, ty \in LegacyTxTypes,
          a \in LegacyTxAmounts, l \in LegacyLabels :
          addTransactionForBucket(bucket, d, ty, a, l)
    \/ \E tx \in transactions, d \in EditTxDates, ty \in LegacyTxTypes,
          a \in LegacyTxAmounts, l \in LegacyLabels :
          updateTransaction(tx, d, ty, a, l)
    \/ \E tx \in transactions : deleteTransaction(tx)
    \/ \E raw \in unmappedCategories, bucket \in LegacyBuckets : saveMapping(raw, bucket)

SpecLegacy == InitLegacy /\ [][NextLegacy]_vars

\* a step, with the same week on view, that changes the store's transactions and
\* whose every added, removed or rewritten transaction has an amount >= 0 on both
\* sides of the step
NonNegativeTxStep ==
    /\ weekStart # Null
    /\ weekStart' = weekStart
    /\ tbl_transactions' # tbl_transactions
    /\ \A t \in (tbl_transactions' \ tbl_transactions) \cup
                (tbl_transactions \ tbl_transactions') : t.amount >= 0

\* C12: adding, editing or deleting a transaction whose amount is >= 0 changes
\* neither the budgeted, the spent nor the variance of any bucket's row, where
\* spent is the sum of |amount| over the week's transactions of amount < 0
\* classified to the bucket and variance is budgeted - spent
C12_NonNegativeTxLeavesRows ==
    [][NonNegativeTxStep =>
          \A r \in {rows} : \A r2 \in {rows'} : \A b \in BucketSet :
              /\ r2[b].budgeted = r[b].budgeted
              /\ r2[b].spent = r[b].spent
              /\ r2[b].variance = r[b].variance]_vars

\* C13: in every state with no request in flight and a week on view, a bucket is
\* shown as collected (it is in collectedSet) exactly when the store holds at
\* least one bucket_collections row of that week and bucket
C13_CollectedShownIffStored ==
    (inflight = <<>> /\ weekStart # Null) =>
        \A b \in BucketSet :
            b \in collectedSet <=> HasCollection(tbl_bucket_collections, weekStart[1], b)

\* an income that is not a finite number greater than 0
NotFinitePositive(x) == x.kind # "num" \/ x.v <= 0

\* C18: an addNewWeekFromIncome whose income is <= 0 or not finite is rejected
\* before any store write: the weekly_income upsert is not sent, no table of
\* the store changes, and an error message is set
C18_BadIncomeRejected ==
    [][(lastOp'.op = "addNewWeekFromIncome" /\ NotFinitePositive(lastOp'.incomeInput)) =>
          /\ ~lastOp'.upsertSent
          /\ UNCHANGED storeVars
          /\ errorMsg' # NULL]_vars

(***************************************************************************)
(* The Dashboard with every handler that writes the store: weeks are added *)
(* and rebuilt, expenses entered and deleted, overspends covered, buckets  *)
(* collected and their collection undone                                   *)
(***************************************************************************)
RebuildCollectBuckets == {"save"}
RebuildCoverSources == {"wants"}

NextRebuild ==
    \/ \E ws \in WeekStartChoices : ViewWeek(ws)
    \/ \E incomeInput \in CollectIncomes, ws \in WeekStartChoices :
          addNewWeekFromIncome(incomeInput, ws)
    \/ \E bucket \in LedgerTxBuckets, a \in LedgerTxAmounts, l \in LedgerLabels :
          /\ weekStart # Null
          /\ addTransactionForBucket(bucket, weekStart[1], "expense", a, l)
    \/ \E tx \in transactions : deleteTransaction(tx)
    \/ \E r \in {rows} : \E target \in BucketSet :
          /\ canClickCover(r, target)
          /\ \E from \in RebuildCoverSources \ {target} : coverOverspend(r, target, from, Empty)
    \/ \E r \in {rows} : \E bucket \in RebuildCollectBuckets :
          /\ canClickCollect(r, bucket)
          /\ collectBucket(bucket, r[bucket].variance)
    \/ \E i \in DOMAIN inflight : collectBucketAnswered(i)
    \/ \E bucket \in BucketSet : undoCollect(bucket)

SpecRebuild == InitLedger /\ [][NextRebuild]_vars

\* a step that takes a row out of bucket_transfers
TransferRemoved ==
    \E e \in DOMAIN tbl_bucket_transfers :
        CopiesIn(e, tbl_bucket_transfers') < tbl_bucket_transfers[e]

\* C20: a rebuild of week W leaves W with the five budgets rows of a fresh
\* allocation of its income and with no bucket_transfers row, and leaves the
\* budgets and bucket_transfers rows of other weeks, all transactions and all
\* bucket_collections rows as they were; no other handler takes a row out of
\* bucket_transfers
C20_RebuildTouchesOnlyItsWeek ==
    [][IF lastOp'.op = "rebuildBudgetsForWeek"
       THEN \A ws \in {lastOp'.ws} :
               /\ ws \in DOMAIN tbl_weekly_income'
               /\ OfWeek(tbl_budgets', ws) =
                     BagOfSeq(buildBudgetInsertsExactTotal(ws, tbl_weekly_income'[ws]))
               /\ BagSize(OfWeek(tbl_budgets', ws)) = Len(BUCKETS)
               /\ DOMAIN OfWeek(tbl_bucket_transfers', ws) = {}
               /\ NotOfWeek(tbl_budgets', ws) = NotOfWeek(tbl_budgets, ws)
               /\ NotOfWeek(tbl_bucket_transfers', ws) = NotOfWeek(tbl_bucket_transfers, ws)
               /\ tbl_transactions' = tbl_transactions
               /\ tbl_bucket_collections' = tbl_bucket_collections
       ELSE ~TransferRemoved]_vars

\* a week that had transfers was rebuilt while another week holds a transfer, a
\* transaction and a collection are stored
C20_Witness ==
    /\ lastOp.op = "rebuildBudgetsForWeek"
    /\ lastOp.hadTransfers
    /\ \E e \in DOMAIN tbl_bucket_transfers : e.week_start # lastOp.ws
    /\ tbl_transactions # {}
    /\ DOMAIN tbl_bucket_collections # {}

(***************************************************************************)
(* The transaction forms over a store that may answer the write with an    *)
(* error.  An amount field holding Infinity passes the forms' validation;  *)
(* -Infinity and Infinity are sent as JSON null, and a row accepted with   *)
(* it reads back as Number(null) = 0.                                      *)
(***************************************************************************)
FormWeeks == {0}
FormTxBuckets == {"wants"}
FormTxDates == {0, 6, 7}
FormTxTypes == {"expense", "income"}
FormTxAmounts == {Num(0), Infinity, Num(200)}
FormLabels == {<<"g">>}

\* signedAmount as the store holds it
signedAmountStored(type, amount) ==
    IF amount.kind = "inf" THEN 0
    ELSE IF type = "expense" THEN -amount.v ELSE amount.v

\* addTransactionForBucket whose insert is answered with an error when ~ok
addTransactionForBucketStore(bucket, txDate, txType, txAmount, txRawCategory, ok) ==
    LET raw == trim(txRawCategory)
        err == addTransactionError(txDate, txAmount, raw)
        storedCategory == makeStoredCategory(bucket, raw)
    IN  /\ inflight = <<>>
        /\ weekStart # Null
        /\ UNCHANGED <<tzEast, coveringBucket, inflight, allocVars, libVars, savingsVars, homeVars>>
        /\ IF err # NULL \/ ~ok
           THEN /\ errorMsg' = IF err # NULL THEN err ELSE StoreError
                /\ UNCHANGED <<storeVars, weekVars>>
                /\ lastOp' = [op |-> "transactionForm", date |-> txDate, type |-> txType,
                              written |-> FALSE]
           ELSE /\ nextId < MaxTxIds
                /\ tbl_transactions' = tbl_transactions \cup
                      {[id |-> nextId, date |-> txDate,
                        amount |-> signedAmountStored(txType, txAmount),
                        category |-> storedCategory]}
                /\ nextId' = nextId + 1
                /\ UNCHANGED <<tbl_weekly_income, tbl_budgets, tbl_bucket_transfers,
                               tbl_bucket_collections, tbl_category_map>>
                /\ loadWeekAll(weekStart[1])
                /\ lastOp' = [op |-> "transactionForm", date |-> txDate, type |-> txType,
                              written |-> TRUE]

\* updateTransaction whose update is answered with an error when ~ok
updateTransactionStore(tx, editDate, editType, editAmount, editRawCategory, ok) ==
    LET raw == trim(editRawCategory)
        err == updateTransactionError(editDate, editAmount, raw)
        lockedBucket == splitStoredCategory(tx.category).bucket
        currentBucket == IF tx.category \in DOMAIN mapDict THEN mapDict[tx.category] ELSE NULL
        remap == /\ lockedBucket = NULL
                 /\ currentBucket # NULL
                 /\ (raw \notin DOMAIN mapDict \/ mapDict[raw] # currentBucket)
    IN  /\ inflight = <<>>
        /\ tx \in transactions
        /\ BucketOfTx(tx, mapDict) # NULL
        /\ UNCHANGED <<tzEast, coveringBucket, inflight, allocVars, libVars, savingsVars, homeVars>>
        /\ IF err # NULL
           THEN /\ errorMsg' = err
                /\ UNCHANGED <<storeVars, weekVars>>
                /\ lastOp' = [op |-> "transactionForm", date |-> editDate, type |-> editType,
                              written |-> FALSE]
           ELSE /\ IF remap THEN upsertMapping(raw, currentBucket)
                            ELSE UNCHANGED tbl_category_map
                /\ tbl_transactions' =
                      IF ok
                      THEN {IF t.id = tx.id
                            THEN [id |-> t.id, date |-> editDate,
                                  amount |-> signedAmountStored(editType, editAmount),
                                  category |-> nextCategory(lockedBucket, raw)]
                            ELSE t : t \in tbl_transactions}
                      ELSE tbl_transactions
                /\ UNCHANGED <<tbl_weekly_income, tbl_budgets, tbl_bucket_transfers,
                               tbl_bucket_collections, nextId>>
                /\ IF ok
                   THEN loadWeekAll(weekStart[1])
                   ELSE /\ errorMsg' = StoreError
                        /\ categoryMap' = tbl_category_map'
                        /\ UNCHANGED <<weekStart, weeklyIncome, budgets, transactions,
                                       transfers, collectedSet>>
                /\ lastOp' = [op |-> "transactionForm", date |-> editDate, type |-> editType,
                              written |-> ok]

NextForm ==
    \/ \E ws \in FormWeeks : ViewWeek(ws)
    \/ \E incomeInput \in CollectIncomes, ws \in FormWeeks :
          addNewWeekFromIncome(incomeInput, ws)
    \/ \E bucket \in FormTxBuckets, d \in FormTxDates, ty \in FormTxTypes,
          a \in FormTxAmounts, l \in FormLabels, ok \in BOOLEAN :
          addTransactionForBucketStore(bucket, d, ty, a, l, ok)
    \/ \E tx \in transactions, d \in FormTxDates, ty \in FormTxTypes,
          a \in FormTxAmounts, l \in FormLabels, ok \in BOOLEAN :
          updateTransactionStore(tx, d, ty, a, l, ok)

SpecForm == Init /\ [][NextForm]_vars

\* C19: a transaction written by addTransactionForBucket or updateTransaction has
\* a date within the week on view at the write, [weekStart, weekStart + 6], and
\* an amount < 0 when the form's type is expense and > 0 when it is income; a
\* form whose date is outside that week writes nothing and sets an error
C19_WrittenTxInWeekAndSigned ==
    [][lastOp'.op = "transactionForm" =>
          /\ \A t \in tbl_transactions' \ tbl_transactions :
                /\ weekStart # Null
                /\ isISOInRange(t.date, weekStart[1], weekStart[1] + 6)
                /\ lastOp'.type = "expense" => t.amount < 0
                /\ lastOp'.type = "income" => t.amount > 0
          /\ (weekStart # Null /\ ~isISOInRange(lastOp'.date, weekStart[1], weekStart[1] + 6)) =>
                /\ UNCHANGED storeVars
                /\ errorMsg' # NULL]_vars

(***************************************************************************)
(* The Savings page (src/app/savings/page.tsx) and the totals of the Home  *)
(* page (src/unnamed/part_000, lines 1-1029).  A bucket_collections row    *)
(* holds its bucket as text here, a sequence of characters, since both     *)
(* pages lower-case, trim and compare it.  errorMsg is the errorMsg of the *)
(* page that is mounted.                                                   *)
(***************************************************************************)
Uppers == <<"A", "B", "C", "D", "E", "F", "G", "H", "I", "J", "K", "L", "M",
            "N", "O", "P", "Q", "R", "S", "T", "U", "V", "W", "X", "Y", "Z">>
Lowers == <<"a", "b", "c", "d", "e", "f", "g", "h", "i", "j", "k", "l", "m",
            "n", "o", "p", "q", "r", "s", "t", "u", "v", "w", "x", "y", "z">>

\* String.prototype.toLowerCase
toLowerCase(s) ==
    [i \in DOMAIN s |->
        IF \E k \in DOMAIN Uppers : Uppers[k] = s[i]
        THEN Lowers[CHOOSE k \in DOMAIN Uppers : Uppers[k] = s[i]]
        ELSE s[i]]

\* String.prototype.startsWith
startsWith(s, prefix) == Len(s) >= Len(prefix) /\ SubSeq(s, 1, Len(prefix)) = prefix

TrackerBuckets == {"savings", "student_loans", "emergency", "extra_money"}

ExtraMoney == <<"e", "x", "t", "r", "a", " ", "m", "o", "n", "e", "y">>

\* tracker -> bucket_collections.bucket (for adjustment rows)
rawBucketForTracker(tracker) ==
    IF tracker = "savings" THEN Chars("save")
    ELSE IF tracker = "student_loans" THEN Chars("student loans")
    ELSE IF tracker = "emergency" THEN Chars("emergency")
    ELSE ExtraMoney

\* trackerForRawBucket of the Home page: the bucket text starts with the name
trackerForRawBucketHome(raw) ==
    LET x == trim(toLowerCase(raw))
    IN  IF startsWith(x, Chars("save")) THEN "savings"
        ELSE IF startsWith(x, Chars("student loans")) THEN "student_loans"
        ELSE IF startsWith(x, Chars("emergency")) THEN "emergency"
        ELSE "extra_money"

\* trackerForRawBucket of the Savings page: the bucket text is the name
trackerForRawBucket(raw) ==
    LET x == trim(toLowerCase(raw))
    IN  IF x = Chars("save") THEN "savings"
        ELSE IF x = Chars("student loans") THEN "student_loans"
        ELSE IF x = Chars("emergency") THEN "emergency"
        ELSE "extra_money"

\* totals of the Savings page over its rows
totals(rs) ==
    [k \in TrackerBuckets |->
        BagTotal(BagWhere(rs, LAMBDA r : trackerForRawBucket(r.bucket) = k),
                 LAMBDA r : r.amount)]

\* totals of the Home page over its rows
totalsHome(rs) ==
    [k \in TrackerBuckets |->
        BagTotal(BagWhere(rs, LAMBDA r : trackerForRawBucketHome(r.bucket) = k),
                 LAMBDA r : r.amount)]

\* the weeks the Savings page offers: those of its rows
weekOptions == {r.week_start : r \in DOMAIN savingsRows}

\* what the adjust form is given
AdjAmounts == {Empty, Infinity, Num(0), Num(2500)}
AdjNotes == {<<>>, <<"g", "i", "f", "t">>}
AdjDirections == {"add", "subtract"}

\* the rows collected on the Dashboard before the Savings page is opened
CollectedBefore ==
    {NoRows,
     [week_start |-> 0, bucket |-> Chars("save"), amount |-> 20000] :> 1,
     ([week_start |-> 0, bucket |-> Chars("wants"), amount |-> 20000] :> 1) @@
     ([week_start |-> 3, bucket |-> Chars("emergency"), amount |-> 13330] :> 1)}

InitSavings ==
    /\ tzEast = FALSE
    /\ tbl_weekly_income = NoRows
    /\ tbl_budgets = NoRows
    /\ tbl_bucket_transfers = NoRows
    /\ tbl_bucket_collections \in CollectedBefore
    /\ tbl_transactions = {}
    /\ tbl_category_map = NoRows
    /\ nextId = 0
    /\ InitDashboard
    /\ InitButtons
    /\ InitPages
    /\ allocIncome = 0
    /\ allocInserts = <<>>

\* load of the Savings page; its select answers with an error when ~ok
load(ok) ==
    /\ savingsRows' = IF ok THEN tbl_bucket_collections' ELSE NoRows
    /\ selectedWeek' =
          IF ~ok THEN Null
          ELSE IF selectedWeek # Null THEN selectedWeek
          ELSE IF DOMAIN tbl_bucket_collections' = {} THEN Null
          ELSE Some(CHOOSE w \in {r.week_start : r \in DOMAIN tbl_bucket_collections'} :
                       \A r \in DOMAIN tbl_bucket_collections' : r.week_start <= w)
    /\ errorMsg' = IF ok THEN NULL ELSE StoreError

SavingsLoad(ok) ==
    /\ UNCHANGED <<tzEast, storeVars, weekVars, coveringBucket, inflight, allocVars, libVars, homeVars>>
    /\ load(ok)
    /\ lastOp' = [op |-> "other"]

\* the week select of the Savings page
SelectWeek(ws) ==
    /\ ws \in weekOptions
    /\ selectedWeek' = Some(ws)
    /\ lastOp' = [op |-> "other"]
    /\ UNCHANGED <<tzEast, storeVars, weekVars, errorMsg, coveringBucket, inflight, allocVars, libVars,
                   savingsRows, homeVars>>

\* the amount check that lets every number but NaN through
adjustAmountErrorNaN(adjAmount) ==
    IF NotPositive(adjAmount) THEN "Enter an amount greater than 0." ELSE NULL

\* !adjAmount || !Number.isFinite(amt) || amt <= 0
adjustAmountError(adjAmount) ==
    IF adjAmount.kind # "num" \/ adjAmount.v <= 0
    THEN "Enter an amount greater than 0." ELSE NULL

\* the bucket text of an adjustment row
adjustBucket(adjTracker, adjNote) ==
    LET baseBucket == rawBucketForTracker(adjTracker)
        note == trim(adjNote)
    IN  IF note # <<>> THEN baseBucket \o <<" ", "(">> \o note \o <<")">> ELSE baseBucket

\* adjustTrackerTotal; its insert answers with an error when ~ok
adjustTrackerTotal(adjTracker, adjDirection, adjAmount, adjNote, ok) ==
    LET err == IF selectedWeek = Null THEN "Pick a week before adjusting totals."
               ELSE adjustAmountError(adjAmount)
        signed == IF adjDirection = "subtract" THEN -adjAmount.v ELSE adjAmount.v
    IN  /\ UNCHANGED <<tzEast, weekVars, coveringBucket, inflight, allocVars, libVars, homeVars>>
        /\ UNCHANGED <<tbl_weekly_income, tbl_budgets, tbl_bucket_transfers,
                       tbl_transactions, tbl_category_map, nextId>>
        /\ lastOp' = [op |-> "adjustTrackerTotal", tracker |-> adjTracker,
                      direction |-> adjDirection, amount |-> adjAmount,
                      inserted |-> err = NULL /\ ok]
        /\ IF err # NULL \/ ~ok
           THEN /\ errorMsg' = IF err # NULL THEN err ELSE StoreError
                /\ UNCHANGED <<tbl_bucket_collections, savingsVars>>
           ELSE /\ BagSize(tbl_bucket_collections) < MaxCollections
                /\ tbl_bucket_collections' =
                      BagAdd(tbl_bucket_collections,
                             [week_start |-> selectedWeek[1],
                              bucket |-> adjustBucket(adjTracker, adjNote),
                              amount |-> signed])
                /\ load(TRUE)

\* loadCollections of the Home page (its mount and its Refresh button)
loadCollections ==
    /\ homeRows' = tbl_bucket_collections
    /\ errorMsg' = NULL
    /\ lastOp' = [op |-> "other"]
    /\ UNCHANGED <<tzEast, storeVars, weekVars, coveringBucket, inflight, allocVars, libVars,
                   savingsVars, goals, tbl_user_goals, nextGoalId, donut>>

NextSavings ==
    \/ \E ok \in BOOLEAN : SavingsLoad(ok)
    \/ \E ws \in WeekStartChoices : SelectWeek(ws)
    \/ \E t \in TrackerBuckets, d \in AdjDirections, a \in AdjAmounts, n \in AdjNotes,
          ok \in BOOLEAN : adjustTrackerTotal(t, d, a, n, ok)
    \/ loadCollections

SpecSavings == InitSavings /\ [][NextSavings]_vars

\* the last handler was an adjustTrackerTotal whose insert succeeded
Adjusted == lastOp'.op = "adjustTrackerTotal" /\ lastOp'.inserted

\* what the adjustment adds to the total of tracker k
AdjustedBy(k) ==
    IF k # lastOp'.tracker THEN 0
    ELSE IF lastOp'.direction = "subtract" THEN -lastOp'.amount.v ELSE lastOp'.amount.v

\* C14: a successful adjustment of tracker T by a, with or without a note, moves
\* the total of T by +a (add) or -a (subtract) and leaves the other three totals
\* as they were, in the totals of the Savings page and in those the Home page
\* computes from the same rows
C14_AdjustMovesOnlyItsTracker ==
    [][Adjusted =>
          \A k \in TrackerBuckets :
              /\ totals(savingsRows')[k] = totals(savingsRows)[k] + AdjustedBy(k)
              /\ totalsHome(tbl_bucket_collections')[k] =
                    totalsHome(tbl_bucket_collections)[k] + AdjustedBy(k)]_vars

\* the adjust form asks for an insert: a week is selected and the amount is a
\* finite number greater than 0
AdjustAsksInsert ==
    /\ selectedWeek # Null
    /\ lastOp'.amount.kind = "num"
    /\ lastOp'.amount.v > 0

\* C15: adjustTrackerTotal inserts a bucket_collections row only when a week is
\* selected and the amount is a finite number greater than 0; the row then holds
\* +amount (add) or -amount (subtract) and the selected week as its week_start;
\* otherwise nothing is inserted and an error message is set
C15_AdjustInsertsOnlyValid ==
    [][lastOp'.op = "adjustTrackerTotal" =>
          IF AdjustAsksInsert
          THEN \/ /\ tbl_bucket_collections' = tbl_bucket_collections
                  /\ errorMsg' = StoreError
               \/ \E r \in DOMAIN tbl_bucket_collections' :
                     /\ tbl_bucket_collections' = BagAdd(tbl_bucket_collections, r)
                     /\ r.week_start = selectedWeek[1]
                     /\ r.amount = AdjustedBy(lastOp'.tracker)
                     /\ r.amount # 0
          ELSE /\ tbl_bucket_collections' = tbl_bucket_collections
               /\ errorMsg' # NULL]_vars

\* a subtraction was inserted for the selected week, and a form with the amount
\* Infinity was refused
C15_Witness ==
    /\ lastOp.op = "adjustTrackerTotal"
    /\ ~lastOp.inserted
    /\ lastOp.amount.kind = "inf"
    /\ selectedWeek # Null
    /\ \E r \in DOMAIN tbl_bucket_collections :
          r.amount = -2500 /\ r.week_start = selectedWeek[1]

(***************************************************************************)
(* GoalDonutCard of the Home page.  The percentage (current / target) *    *)
(* 100 is a fraction: it is held as num / den with den = target > 0, and   *)
(* the bounds 0 and 100 it is clamped to are scaled by the same den.       *)
(***************************************************************************)
\* clamp that keeps the upper bound only
clampUpperOnly(n, min, max) == MathMin(max, n)

\* clamp(n, min, max) of the Home page
clamp(n, min, max) == MathMax(min, MathMin(max, n))

\* pct of GoalDonutCard
GoalPct(current, target) ==
    IF target <= 0 THEN [num |-> 0, den |-> 1]
    ELSE [num |-> clamp(current * 100, 0 * target, 100 * target), den |-> target]

\* remaining of GoalDonutCard
GoalRemaining(current, target) == MathMax(target - current, 0)

\* the totals and targets a card is rendered with, in whole currency units
DonutCurrents == {k * 125 : k \in -2..9}
DonutTargets == {k * 250 : k \in -1..8}

GoalDonutCard(current, target) ==
    /\ donut' = [current |-> current, target |-> target, rendered |-> TRUE,
                 pct |-> GoalPct(current, target),
                 remaining |-> GoalRemaining(current, target)]
    /\ lastOp' = [op |-> "other"]
    /\ UNCHANGED <<tzEast, storeVars, weekVars, errorMsg, coveringBucket, inflight, allocVars, libVars,
                   savingsVars, homeRows, goals, tbl_user_goals, nextGoalId>>

NextGoal == \E current \in DonutCurrents, target \in DonutTargets : GoalDonutCard(current, target)

SpecGoal == InitLedger /\ [][NextGoal]_vars

\* C16: the ring's percentage is 0 when target <= 0, otherwise current / target *
\* 100 held within [0, 100]; remaining is max(target - current, 0); a target of
\* 500 with 625 collected shows 100 and 0 remaining; a negative current shows 0
C16_GoalRing ==
    donut.rendered =>
        LET c == donut.current
            t == donut.target
            p == donut.pct
        IN  /\ p.den > 0
            /\ p.num >= 0 /\ p.num <= 100 * p.den
            /\ t <= 0 => p.num = 0
            /\ (t > 0 /\ c >= 0 /\ c <= t) => p.num * t = c * 100 * p.den
            /\ (t > 0 /\ c > t) => p.num = 100 * p.den
            /\ c < 0 => p.num = 0
            /\ donut.remaining = IF t - c > 0 THEN t - c ELSE 0
            /\ (t = 500 /\ c = 625) => (p.num = 100 * p.den /\ donut.remaining = 0)

\* the card was rendered with a target of 500 and 625 collected
C16_Witness ==
    /\ donut.rendered
    /\ donut.target = 500
    /\ donut.current = 625

(***************************************************************************)
(* The goals of the Home page.  A user_goals row is [id, key, title,       *)
(* target, is_active].  upsertGoal names no conflict target and the table's*)
(* keys are not part of the sources: the upsert either replaces the row of *)
(* the same key or adds a row.  The Save button of GoalEditRow has no      *)
(* onClick, so its onSave is never called.                                 *)
(***************************************************************************)
MaxGoals == 2

\* g.key === "savings" || g.key === "student_loans", with the second test left out
isKeptGoalSavingsOnly(key) == key = "savings"

\* g.key === "savings" || g.key === "student_loans"
isKeptGoal(key) == key = "savings" \/ key = "student_loans"

NewGoalKeys == TrackerBuckets
NewGoalTitles == {<<>>, <<"G">>}
NewGoalTargets == {Empty, Num(1000000)}

\* the goals stored before the Home page is opened
GoalsBefore ==
    {{},
     {[id |-> -1, key |-> "savings", title |-> <<"S">>, target |-> 500000, is_active |-> TRUE],
      [id |-> -2, key |-> "student_loans", title |-> <<"L">>, target |-> 2000000,
       is_active |-> TRUE]}}

InitHome ==
    /\ tzEast = FALSE
    /\ InitEmptyStore
    /\ InitDashboard
    /\ InitButtons
    /\ allocIncome = 0
    /\ allocInserts = <<>>
    /\ savingsRows = NoRows
    /\ selectedWeek = Null
    /\ homeRows = NoRows
    /\ goals = {}
    /\ tbl_user_goals \in GoalsBefore
    /\ nextGoalId = 0
    /\ donut = [current |-> 0, target |-> 0, rendered |-> FALSE,
                pct |-> [num |-> 0, den |-> 1], remaining |-> 0]

\* loadGoals
loadGoals == goals' = tbl_user_goals'

\* the mount of Home and its Refresh button, for the goals
HomeLoadGoals ==
    /\ UNCHANGED <<tzEast, storeVars, weekVars, coveringBucket, inflight, allocVars, libVars,
                   savingsVars, homeRows, tbl_user_goals, nextGoalId, donut>>
    /\ errorMsg' = NULL
    /\ loadGoals
    /\ lastOp' = [op |-> "other"]

\* upsertGoal; byKey: the store resolves the upsert on the goal's key
upsertGoal(key, title, target, byKey) ==
    /\ nextGoalId < MaxGoals
    /\ tbl_user_goals' =
          {g \in tbl_user_goals : ~(byKey /\ g.key = key)} \cup
          {[id |-> nextGoalId, key |-> key, title |-> title, target |-> target,
            is_active |-> TRUE]}
    /\ nextGoalId' = nextGoalId + 1
    /\ errorMsg' = NULL
    /\ loadGoals

\* the message the Add goal button sets, NULL when it goes on to upsertGoal
addGoalError(newGoalKey, newGoalTitle, newGoalTarget) ==
    IF trim(newGoalTitle) = <<>> THEN "Goal title is required."
    ELSE IF NotPositive(newGoalTarget) THEN "Goal target must be a number greater than 0."
    ELSE IF isKeptGoal(newGoalKey)
         THEN "Use the edit rows above to change Savings or Student Loans targets."
    ELSE NULL

\* onClick of the Add goal button
AddGoal(newGoalKey, newGoalTitle, newGoalTarget, byKey) ==
    LET err == addGoalError(newGoalKey, newGoalTitle, newGoalTarget)
    IN  /\ UNCHANGED <<tzEast, storeVars, weekVars, coveringBucket, inflight, allocVars, libVars,
                       savingsVars, homeRows, donut>>
        /\ lastOp' = [op |-> "addGoal", key |-> newGoalKey]
        /\ IF err # NULL
           THEN /\ errorMsg' = err
                /\ UNCHANGED <<goals, tbl_user_goals, nextGoalId>>
           ELSE upsertGoal(newGoalKey, trim(newGoalTitle), newGoalTarget.v, byKey)

\* toggleGoal, offered for the goals listed under Manage extra goals
toggleGoal(g) ==
    /\ g \in goals
    /\ ~isKeptGoal(g.key)
    /\ UNCHANGED <<tzEast, storeVars, weekVars, coveringBucket, inflight, allocVars, libVars,
                   savingsVars, homeRows, nextGoalId, donut>>
    /\ tbl_user_goals' =
          {IF x.id = g.id THEN [x EXCEPT !.is_active = ~g.is_active] ELSE x :
              x \in tbl_user_goals}
    /\ errorMsg' = NULL
    /\ loadGoals
    /\ lastOp' = [op |-> "other"]

\* deleteGoal, called with a goal the page holds
deleteGoal(g) ==
    /\ g \in goals
    /\ UNCHANGED <<tzEast, storeVars, weekVars, coveringBucket, inflight, allocVars, libVars,
                   savingsVars, homeRows, nextGoalId, donut>>
    /\ lastOp' = [op |-> "deleteGoal", key |-> g.key]
    /\ IF isKeptGoal(g.key)
       THEN /\ errorMsg' = "You can't delete the Savings or Student Loans goals."
            /\ UNCHANGED <<goals, tbl_user_goals>>
       ELSE /\ tbl_user_goals' = {x \in tbl_user_goals : x.id # g.id}
            /\ errorMsg' = NULL
            /\ loadGoals

NextHome ==
    \/ HomeLoadGoals
    \/ \E k \in NewGoalKeys, ti \in NewGoalTitles, ta \in NewGoalTargets, byKey \in BOOLEAN :
          AddGoal(k, ti, ta, byKey)
    \/ \E g \in goals : toggleGoal(g)
    \/ \E g \in goals : deleteGoal(g)

SpecHome == InitHome /\ [][NextHome]_vars

\* C17: no handler of the Home page removes or rewrites a stored goal whose key is
\* savings or student_loans; deleteGoal called with such a goal sends no delete,
\* leaves goals as they are and sets an error message; the Add goal button with
\* such a key writes nothing and sets an error message
C17_KeptGoalsStay ==
    [][/\ \A g \in tbl_user_goals :
             (g.key = "savings" \/ g.key = "student_loans") => g \in tbl_user_goals'
       /\ (lastOp'.op = "deleteGoal" /\ lastOp'.key \in {"savings", "student_loans"}) =>
             /\ tbl_user_goals' = tbl_user_goals
             /\ goals' = goals
             /\ errorMsg' # NULL
       /\ (lastOp'.op = "addGoal" /\ lastOp'.key \in {"savings", "student_loans"}) =>
             /\ tbl_user_goals' = tbl_user_goals
             /\ errorMsg' # NULL]_vars

\* deleteGoal was called with the stored student loans goal, which is still stored
C17_Witness ==
    /\ lastOp.op = "deleteGoal"
    /\ lastOp.key = "student_loans"
    /\ \E g \in tbl_user_goals : g.key = "student_loans"
    /\ errorMsg = "You can't delete the Savings or Student Loans goals."

(***************************************************************************)
(* The share of expenses                                                   *)
(***************************************************************************)
\* C21: for every income > 0 the cents allocated to expenses differ from
\* round(income_cents * 0.30) by no more than the drift of the per-bucket
\* roundings (five halves, so 2 cents), that is, the leftover added to expenses is
\* a few cents only
C21_ExpensesThirtyPercent ==
    allocInserts # <<>> =>
        MathAbs(toCents(allocInserts[5].amount) - MathRound(allocIncome * 30, 100))
            <= 2

(***************************************************************************)
(* lib/collections and the CollectButton that calls it.  A row of the      *)
(* collections table is [id, week_id, category, bucket, amount,            *)
(* created_at, undone]; created_at is given by the store on insert and is  *)
(* modelled by the order of insertion.                                     *)
(***************************************************************************)
MaxLibRows == 3

\* String.prototype.includes
includes(s, pat) == indexOf(s, pat) >= 0

bucketForCategory(category) ==
    LET c == toLowerCase(category)
    IN  IF includes(c, <<"s", "t", "u", "d", "e", "n", "t">>) THEN "student_loans"
        ELSE IF includes(c, <<"s", "a", "v", "i", "n", "g">>) THEN "savings"
        ELSE IF includes(c, <<"e", "m", "e", "r", "g">>) THEN "emergency"
        ELSE "extra_money"

\* the props weekId and category each mounted button was given
ButtonProps(i) ==
    IF i = 3 THEN [weekId |-> 0, category |-> Chars("student loans")]
    ELSE [weekId |-> 0, category |-> Chars("save")]

\* the prop remaining, as the parent passes it at a click
RemainingInputs == {0, 2500}

\* the rows undoCollect's select reads: active rows of the week and category
activeRows(tbl, weekId, category) ==
    {r \in tbl : r.week_id = weekId /\ r.category = category /\ ~r.undone}

\* order("created_at", descending).limit(1)
mostRecent(found) == CHOOSE r \in found : \A q \in found : q.created_at <= r.created_at

\* collectLeftover; ok is whether the store accepts the insert.  The result is
\* <<>> for null and for a throw, <<row>> otherwise
collectLeftover(weekId, category, amount, ok) ==
    IF amount = 0 \/ amount <= 0
    THEN /\ UNCHANGED tbl_collections
         /\ lastOp' = [op |-> "collectLeftover", weekId |-> weekId,
                       category |-> category, returned |-> <<>>, threw |-> FALSE]
    ELSE IF ~ok
    THEN /\ UNCHANGED tbl_collections
         /\ lastOp' = [op |-> "collectLeftover", weekId |-> weekId,
                       category |-> category, returned |-> <<>>, threw |-> TRUE]
    ELSE LET id == Cardinality(tbl_collections)
             row == [id |-> id, week_id |-> weekId, category |-> category,
                     bucket |-> bucketForCategory(category), amount |-> amount,
                     created_at |-> id, undone |-> FALSE]
         IN  /\ tbl_collections' = tbl_collections \cup {row}
             /\ lastOp' = [op |-> "collectLeftover", weekId |-> weekId,
                           category |-> category, returned |-> <<id>>, threw |-> FALSE]

\* undoCollect of lib/collections; ok is whether the store answers both requests
undoCollectLib(weekId, category, ok) ==
    LET found == activeRows(tbl_collections, weekId, category)
    IN  IF ~ok
        THEN /\ UNCHANGED tbl_collections
             /\ lastOp' = [op |-> "undoCollectLib", weekId |-> weekId,
                           category |-> category, returned |-> <<>>, threw |-> TRUE]
        ELSE IF found = {}
        THEN /\ UNCHANGED tbl_collections
             /\ lastOp' = [op |-> "undoCollectLib", weekId |-> weekId,
                           category |-> category, returned |-> <<>>, threw |-> FALSE]
        ELSE LET row == mostRecent(found)
             IN  /\ tbl_collections' =
                        (tbl_collections \ {row}) \cup {[row EXCEPT !.undone = TRUE]}
                 /\ lastOp' = [op |-> "undoCollectLib", weekId |-> weekId,
                               category |-> category, returned |-> <<row.id>>,
                               threw |-> FALSE]

\* CollectButton.onClick of button i
onClick(i, remaining, ok) ==
    LET p == ButtonProps(i)
        disabled == ~isCollected[i] /\ remaining <= 0
    IN  /\ ~disabled
        /\ ~isCollected[i] => Cardinality(tbl_collections) < MaxLibRows
        /\ IF ~isCollected[i]
           THEN collectLeftover(p.weekId, p.category, remaining, ok)
           ELSE undoCollectLib(p.weekId, p.category, ok)
        /\ isCollected' = IF lastOp'.threw THEN isCollected
                          ELSE [isCollected EXCEPT ![i] = ~isCollected[i]]
        /\ UNCHANGED <<tzEast, storeVars, weekVars, errorMsg, coveringBucket, inflight,
                       allocVars, savingsVars, homeVars>>

\* the page is loaded again: the button starts from useState(false)
MountButton(i) ==
    /\ isCollected[i]
    /\ isCollected' = [isCollected EXCEPT ![i] = FALSE]
    /\ lastOp' = [op |-> "mount", button |-> i]
    /\ UNCHANGED <<tzEast, storeVars, weekVars, errorMsg, coveringBucket, inflight,
                   allocVars, savingsVars, homeVars, tbl_collections>>

NextLib ==
    \/ \E i \in ButtonInstances, remaining \in RemainingInputs, ok \in BOOLEAN :
          onClick(i, remaining, ok)
    \/ \E i \in ButtonInstances : MountButton(i)

SpecLib == InitLedger /\ [][NextLib]_vars

\* an undoCollect that the store answered
UndoStep == lastOp'.op = "undoCollectLib" /\ ~lastOp'.threw

\* undoCollect keeps every row, marks the latest active row of its week and
\* category and no other, and returns null and changes nothing when there is none
UndoMarksLatest ==
    UndoStep =>
        LET found == activeRows(tbl_collections, lastOp'.weekId, lastOp'.category)
        IN  IF found = {}
            THEN lastOp'.returned = <<>> /\ UNCHANGED tbl_collections
            ELSE \E row \in found :
                    /\ \A q \in found : q.created_at <= row.created_at
                    /\ lastOp'.returned = <<row.id>>
                    /\ tbl_collections' =
                          (tbl_collections \ {row}) \cup {[row EXCEPT !.undone = TRUE]}

\* a second undoCollect in a row for the same week and category
SecondUndoInARow ==
    /\ UndoStep
    /\ lastOp.op = "undoCollectLib"
    /\ ~lastOp.threw
    /\ lastOp.weekId = lastOp'.weekId
    /\ lastOp.category = lastOp'.category

\* C22: undoCollect of lib/collections never deletes a row; it sets undone_at on
\* exactly one row, the most recently created active row of (weekId, category),
\* and returns null without a change when there is none; and it is idempotent: a
\* second call in a row for the same (weekId, category) leaves the set of active
\* rows as the first call left it
C22_UndoMarksLatestIdempotent ==
    [][/\ UndoMarksLatest
       /\ SecondUndoInARow =>
             {r \in tbl_collections' : ~r.undone} = {r \in tbl_collections : ~r.undone}]_vars

(***************************************************************************)
(* splitStoredCategory and makeStoredCategory on texts of every shape      *)
(***************************************************************************)
\* texts offered to splitStoredCategory: lead, name, trail, separator, rest
SplitLeads == {<<>>, <<" ">>}
SplitNames == {Chars(b) : b \in BucketSet} \cup {<<>>, <<"s", "a", "v">>, <<"S", "a", "v", "e">>}
SplitSeparators == {<<>>, <<":">>, TX_BUCKET_DELIM}
SplitRests == {<<>>, <<" ">>, <<"g">>, <<" ", "g", " ">>, <<"g", ":", ":", "h">>, <<":">>}
SplitInputs ==
    {lead \o name \o trail \o sep \o rest :
        lead \in SplitLeads, name \in SplitNames, trail \in SplitLeads,
        sep \in SplitSeparators, rest \in SplitRests}

\* labels as the forms pass them to makeStoredCategory: trimmed and not empty
StoredLabels == {<<"g">>, <<"g", " ", "h">>, <<"g", ":", ":", "h">>, <<":">>, <<"g", ":">>}

SplitStored(category) ==
    /\ lastOp' = [op |-> "splitStoredCategory", category |-> category,
                  result |-> splitStoredCategory(category)]
    /\ UNCHANGED <<tzEast, storeVars, weekVars, errorMsg, coveringBucket, inflight,
                   allocVars, libVars, savingsVars, homeVars>>

MakeStored(bucket, raw) ==
    /\ lastOp' = [op |-> "makeStoredCategory", bucket |-> bucket, raw |-> raw,
                  result |-> splitStoredCategory(makeStoredCategory(bucket, raw))]
    /\ UNCHANGED <<tzEast, storeVars, weekVars, errorMsg, coveringBucket, inflight,
                   allocVars, libVars, savingsVars, homeVars>>

NextSplit ==
    \/ \E category \in SplitInputs : SplitStored(category)
    \/ \E bucket \in BucketSet, raw \in StoredLabels : MakeStored(bucket, raw)

SpecSplit == InitLedger /\ [][NextSplit]_vars

\* the round trip of a bucket and a trimmed, non-empty label
SplitRoundTrip ==
    lastOp.op = "makeStoredCategory" =>
        lastOp.result = [bucket |-> lastOp.bucket, raw |-> lastOp.raw]

\* C23 as stated: {bucket: b, raw: r} whenever the text holds "::" and the text
\* before its first occurrence is one of the five buckets, {bucket: null, raw: c}
\* in every other case; and the round trip through makeStoredCategory
C23_SplitByPrefix ==
    /\ lastOp.op = "splitStoredCategory" =>
          LET c == lastOp.category
              idx == indexOf(c, TX_BUCKET_DELIM)
              named == IF idx >= 0 THEN BucketsNamed(SubSeq(c, 1, idx)) ELSE {}
          IN  IF named # {}
              THEN /\ lastOp.result.bucket \in named
                   /\ lastOp.result.raw = trim(SubSeq(c, idx + 3, Len(c)))
              ELSE lastOp.result = [bucket |-> NULL, raw |-> c]
    /\ SplitRoundTrip

\* C23, amended: {bucket: b, raw: r} whenever the text holds "::", the text
\* before its first occurrence is, once trimmed, one of the five buckets b, and
\* the text after it is, once trimmed, a non-empty r; {bucket: null, raw: c} in
\* every other case (a bucket prefix with an empty label included); and the
\* round trip through makeStoredCategory
C23_SplitByTrimmedPrefix ==
    /\ lastOp.op = "splitStoredCategory" =>
          LET c == lastOp.category
              idx == indexOf(c, TX_BUCKET_DELIM)
              named == IF idx >= 0 THEN BucketsNamed(trim(SubSeq(c, 1, idx))) ELSE {}
              r == IF idx >= 0 THEN trim(SubSeq(c, idx + 3, Len(c))) ELSE <<>>
          IN  IF named # {} /\ r # <<>>
              THEN lastOp.result.bucket \in named /\ lastOp.result.raw = r
              ELSE lastOp.result = [bucket |-> NULL, raw |-> c]
    /\ SplitRoundTrip

\* " save :: g " was split into the bucket save and the label g
C23_Witness ==
    /\ lastOp.op = "splitStoredCategory"
    /\ lastOp.category = <<" ">> \o Chars("save") \o <<" ", ":", ":", " ", "g", " ">>
    /\ lastOp.result = [bucket |-> "save", raw |-> <<"g">>]

(***************************************************************************)
(* The total budgeted of the viewed week (Spec)                            *)
(***************************************************************************)
\* C24: for a viewed week that has budgets, after any cover-overspend transfers
\* the budgeted amounts of the five buckets sum to the week's weekly_income
\* amount: a transfer moves budget between buckets and makes or loses none
C24_BudgetedSumsToIncome ==
    (weekStart # Null /\ DOMAIN budgets # {} /\ weeklyIncome # Null) =>
        \A r \in {rows} :
            SumFn([b \in BucketSet |-> r[b].budgeted]) = weeklyIncome[1]

\* a cover has moved budget and the five budgeted amounts still sum to the income
C24_Witness ==
    /\ CoverInserted
    /\ lastOp.amt > 0
    /\ weeklyIncome # Null
    /\ rows[lastOp.from].budgeted + lastOp.amt = baseBudgetByBucket(budgets, lastOp.from)
    /\ SumFn([b \in BucketSet |-> rows[b].budgeted]) = weeklyIncome[1]

(***************************************************************************)
(* coverOverspend in two steps: what it does before its first await, from  *)
(* the state of the render its button belongs to, and what it does when    *)
(* the store has answered.  Only the button of coveringBucket is disabled, *)
(* so the Cover of another bucket can start in between.                    *)
(***************************************************************************)
RaceTxBuckets == {"expenses", "student loans"}
RaceIncomes == {Num(133330)}
RaceSources == {"wants"}

\* coverOverspend up to its first await; an accepted request is put in flight
coverOverspendStart(r, targetBucket, from, want) ==
    \E d \in {coverDecision(r, targetBucket, from, want)} :
        /\ Len(inflight) < MaxInflight
        /\ BagSize(tbl_bucket_transfers) + Len(inflight) < MaxTransfers
        /\ UNCHANGED <<storeVars, weekVars, tzEast, allocVars, libVars, savingsVars, homeVars>>
        /\ errorMsg' = IF d.reject \in {NULL, "silent"} THEN NULL ELSE d.reject
        /\ lastOp' = [op |-> "coverOverspendStart", accepted |-> d.reject = NULL]
        /\ IF d.reject # NULL
           THEN UNCHANGED <<coveringBucket, inflight>>
           ELSE /\ coveringBucket' = targetBucket
                /\ inflight' =
                      Append([i \in DOMAIN inflight |-> [inflight[i] EXCEPT !.overlapped = TRUE]],
                             [week_start |-> weekStart[1], from |-> from,
                              target |-> targetBucket, amount |-> d.amt,
                              available |-> d.available,
                              overlapped |-> inflight # <<>>])

\* the insert of the i-th request in flight is answered, the week is loaded again
\* and coveringBucket is cleared
coverOverspendAnswered(i) ==
    LET q == inflight[i]
    IN  /\ tbl_bucket_transfers' =
              BagAdd(tbl_bucket_transfers,
                     [week_start |-> q.week_start, from_bucket |-> q.from,
                      to_bucket |-> q.target, amount |-> q.amount])
        /\ UNCHANGED <<tbl_weekly_income, tbl_budgets, tbl_bucket_collections,
                       tbl_transactions, tbl_category_map, nextId>>
        /\ loadWeekAll(q.week_start)
        /\ coveringBucket' = NULL
        /\ inflight' = SubSeq(inflight, 1, i - 1) \o SubSeq(inflight, i + 1, Len(inflight))
        /\ lastOp' = [op |-> "coverOverspendAnswered", from |-> q.from,
                      target |-> q.target, amount |-> q.amount,
                      available |-> q.available, overlapped |-> q.overlapped]
        /\ UNCHANGED <<tzEast, allocVars, libVars, savingsVars, homeVars>>

NextRace ==
    \/ \E incomeInput \in RaceIncomes, ws \in CollectWeeks :
          addNewWeekFromIncome(incomeInput, ws)
    \/ \E bucket \in RaceTxBuckets, a \in LedgerTxAmounts, l \in LedgerLabels :
          /\ weekStart # Null
          /\ addTransactionForBucket(bucket, weekStart[1], "expense", a, l)
    \/ \E r \in {rows} : \E target \in BucketSet :
          /\ canClickCover(r, target)
          /\ \E from \in RaceSources, want \in CoverAmountInputs :
                coverOverspendStart(r, target, from, want)
    \/ \E i \in DOMAIN inflight : coverOverspendAnswered(i)

SpecRace == InitLedger /\ [][NextRace]_vars

\* C25: when two cover requests for two deficit buckets that name the same source
\* were in flight at once, then once both are answered the transfers they
\* inserted sum to no more than the source had available, and the variance of
\* the source is >= 0
C25_OverlappingCoversKeepSource ==
    (lastOp.op = "coverOverspendAnswered" /\ lastOp.overlapped /\ inflight = <<>>) =>
        /\ BagTotal(BagWhere(tbl_bucket_transfers,
                             LAMBDA tr : tr.week_start = weekStart[1]
                                         /\ tr.from_bucket = lastOp.from),
                    LAMBDA tr : tr.amount) <= lastOp.available
        /\ rows[lastOp.from].variance >= 0

(***************************************************************************)
(* loadWeekAll one await at a time.  The View week button is never         *)
(* disabled, so a second loadWeekAll can start while the first one waits   *)
(* for the store; each call sets the state it has read after each answer.  *)
(***************************************************************************)
LoadWeeks == {0, 7}
LoadIncomes == {Num(133330)}
LoadTxBuckets == {"expenses"}

\* the requests of loadWeekAll in the order it awaits them
loadWeekAllAwaits == <<"category_map", "weekly_income", "budgets", "transactions",
                       "bucket_collections", "bucket_transfers">>

\* View week: loadWeekAll up to its first request to the store
loadWeekAllStart(ws) ==
    /\ Len(inflight) < MaxInflight
    /\ errorMsg' = NULL
    /\ inflight' = Append(inflight, [op |-> "loadWeekAll", ws |-> ws, await |-> 1])
    /\ lastOp' = [op |-> "loadWeekAllStart", ws |-> ws]
    /\ UNCHANGED <<storeVars, weekVars, tzEast, coveringBucket, allocVars, libVars,
                   savingsVars, homeVars>>

\* the request the i-th call waits for is answered: the call sets what it read
\* and goes on to its next request, or returns
loadWeekAllStep(i) ==
    LET q == inflight[i]
        ws == q.ws
        we == addDaysISO(ws, 6)
        what == loadWeekAllAwaits[q.await]
        b == OfWeek(tbl_budgets, ws)
        returns == \/ what = "bucket_transfers"
                   \/ what = "budgets" /\ DOMAIN b = {}
        rest == SubSeq(inflight, 1, i - 1) \o SubSeq(inflight, i + 1, Len(inflight))
    IN  /\ inflight' = IF returns THEN rest
                       ELSE [inflight EXCEPT ![i] = [q EXCEPT !.await = q.await + 1]]
        /\ lastOp' = [op |-> "loadWeekAllStep", ws |-> ws, what |-> what,
                      others |-> Len(inflight) - 1]
        /\ UNCHANGED <<storeVars, tzEast, errorMsg, coveringBucket, allocVars, libVars,
                       savingsVars, homeVars>>
        /\ categoryMap' = IF what = "category_map" THEN tbl_category_map ELSE categoryMap
        /\ weeklyIncome' = IF what # "weekly_income" THEN weeklyIncome
                           ELSE IF ws \in DOMAIN tbl_weekly_income
                           THEN Some(tbl_weekly_income[ws]) ELSE Null
        /\ weekStart' = IF what = "budgets" THEN Some(ws) ELSE weekStart
        /\ budgets' = IF what = "budgets" THEN b ELSE budgets
        /\ transactions' =
              IF what = "budgets" /\ DOMAIN b = {} THEN {}
              ELSE IF what = "transactions"
              THEN {t \in tbl_transactions : t.date >= ws /\ t.date <= we}
              ELSE transactions
        /\ collectedSet' =
              IF what = "budgets" /\ DOMAIN b = {} THEN {}
              ELSE IF what = "bucket_collections"
              THEN collectedBuckets(tbl_bucket_collections, ws)
              ELSE collectedSet
        /\ transfers' =
              IF what = "budgets" /\ DOMAIN b = {} THEN NoRows
              ELSE IF what = "bucket_transfers" THEN OfWeek(tbl_bucket_transfers, ws)
              ELSE transfers

NextLoad ==
    \/ \E incomeInput \in LoadIncomes, ws \in LoadWeeks :
          addNewWeekFromIncome(incomeInput, ws)
    \/ \E bucket \in LoadTxBuckets, a \in LedgerTxAmounts, l \in LedgerLabels :
          /\ weekStart # Null
          /\ addTransactionForBucket(bucket, weekStart[1], "expense", a, l)
    \/ \E ws \in LoadWeeks : loadWeekAllStart(ws)
    \/ \E i \in DOMAIN inflight : loadWeekAllStep(i)

SpecLoad == InitLedger /\ [][NextLoad]_vars

\* C26: under any interleaving of loadWeekAll calls for different weeks, once
\* every call has finished the budgets, transactions, transfers and collected
\* set shown all belong to the one week held in weekStart
C26_OneWeekShown ==
    (inflight = <<>> /\ weekStart # Null) =>
        LET ws == weekStart[1]
        IN  /\ budgets = OfWeek(tbl_budgets, ws)
            /\ DOMAIN budgets # {} =>
                  /\ transactions = {t \in tbl_transactions :
                                        t.date >= ws /\ t.date <= addDaysISO(ws, 6)}
                  /\ transfers = OfWeek(tbl_bucket_transfers, ws)
                  /\ collectedSet = collectedBuckets(tbl_bucket_collections, ws)

(***************************************************************************)
(* Relabelling a legacy transaction (SpecLegacy)                           *)
(***************************************************************************)
\* a successful updateTransaction of an unlocked transaction that the map gives a
\* bucket, changing its label and neither its date nor its amount
LabelOnlyEdit ==
    /\ lastOp'.op = "updateTransaction"
    /\ \E t \in tbl_transactions : \E t2 \in tbl_transactions' :
          /\ t.id = lastOp'.id
          /\ t2.id = t.id
          /\ t.category = lastOp'.before
          /\ t2.category # t.category
          /\ t2.date = t.date
          /\ t2.amount = t.amount
          /\ splitStoredCategory(t.category).bucket = NULL
          /\ t.category \in DOMAIN mapDict

\* C27: a successful updateTransaction that changes only the label of a legacy
\* transaction mapped to a bucket leaves the classification of every transaction
\* as it was: the edited one is in the same bucket under its new label, and every
\* other one is in the same bucket, or unmapped, as before
C27_RelabelKeepsClassification ==
    [][LabelOnlyEdit =>
          \A t \in tbl_transactions : \A t2 \in tbl_transactions' :
              t2.id = t.id => BucketOfTx(t2, mapDict') = BucketOfTx(t, mapDict)]_vars

(***************************************************************************)
(* The Dashboard and the Savings page over the one bucket_collections      *)
(* table: a week is added and viewed, buckets are collected and given      *)
(* back, and tracker totals are adjusted by hand                           *)
(***************************************************************************)
ManualTrackers == {"savings", "extra_money"}
ManualAmounts == {Num(2500)}

NextManual ==
    \/ \E ws \in CollectWeeks : ViewWeek(ws)
    \/ \E incomeInput \in CollectIncomes, ws \in CollectWeeks :
          addNewWeekFromIncome(incomeInput, ws)
    \/ \E r \in {rows} : \E bucket \in CollectBuckets :
          /\ canClickCollect(r, bucket)
          /\ collectBucket(bucket, r[bucket].variance)
    \/ \E i \in DOMAIN inflight : collectBucketAnswered(i)
    \/ \E bucket \in BucketSet : undoCollect(bucket)
    \/ SavingsLoad(TRUE)
    \/ \E ws \in CollectWeeks : SelectWeek(ws)
    \/ \E t \in ManualTrackers, d \in AdjDirections, a \in ManualAmounts, n \in AdjNotes :
          adjustTrackerTotal(t, d, a, n, TRUE)

SpecManual == InitLedger /\ [][NextManual]_vars

\* C28: a manual adjustment made on the Savings page for a week changes no
\* bucket's collected state, and so no transfer availability, that the Dashboard
\* reads for that week; and a Dashboard Undo deletes only rows that a Collect
\* inserted, never an adjustment row (Collect inserts amounts > 0 only, so a
\* deleted row with a negative amount is an adjustment)
C28_AdjustmentApartFromCollect ==
    [][/\ (lastOp'.op = "adjustTrackerTotal" /\ lastOp'.inserted) =>
             \A ws \in CollectWeeks :
                 collectedBuckets(tbl_bucket_collections', ws)
                     = collectedBuckets(tbl_bucket_collections, ws)
       /\ lastOp'.op = "undoCollect" =>
             \A r \in DOMAIN tbl_bucket_collections :
                 r \notin DOMAIN tbl_bucket_collections' => r.amount > 0]_vars

(***************************************************************************)
(* Spending from a bucket whose leftover was collected                     *)
(***************************************************************************)
SpendBuckets == {"save"}
SpendAmounts == {Num(5000)}

NextSpend ==
    \/ \E ws \in CollectWeeks : ViewWeek(ws)
    \/ \E incomeInput \in CollectIncomes, ws \in CollectWeeks :
          addNewWeekFromIncome(incomeInput, ws)
    \/ \E bucket \in SpendBuckets, a \in SpendAmounts, l \in LedgerLabels :
          /\ weekStart # Null
          /\ addTransactionForBucket(bucket, weekStart[1], "expense", a, l)
    \/ \E tx \in transactions : deleteTransaction(tx)
    \/ \E r \in {rows} : \E bucket \in CollectBuckets :
          /\ canClickCollect(r, bucket)
          /\ collectBucket(bucket, r[bucket].variance)
    \/ \E i \in DOMAIN inflight : collectBucketAnswered(i)
    \/ \E bucket \in BucketSet : undoCollect(bucket)

SpecSpend == InitLedger /\ [][NextSpend]_vars

\* C29: while a bucket is collected for the viewed week, the amount of each of
\* its bucket_collections rows is no more than the bucket's variance: what was
\* collected is still left over after later transactions, covers and rebuilds
C29_CollectedStillLeftover ==
    (inflight = <<>> /\ weekStart # Null) =>
        \A r \in {rows} : \A b \in collectedSet :
            \A c \in DOMAIN OfWeekBucket(tbl_bucket_collections, weekStart[1], b) :
                c.amount <= r[b].variance

(***************************************************************************)
(* Weeks that share days (Spec)                                            *)
(***************************************************************************)
\* the weeks of the user that have budgets
budgetedWeeks == {b.week_start : b \in DOMAIN tbl_budgets}

\* C30: every expense counts toward the spent total of at most one week that has
\* budgets: whatever week-start dates were chosen at add-week, no transaction's
\* date lies in the range [week_start, week_start + 6] of two budgeted weeks
C30_OneWeekPerTransaction ==
    \A t \in tbl_transactions :
        t.amount < 0 =>
            Cardinality({ws \in budgetedWeeks :
                            isISOInRange(t.date, ws, addDaysISO(ws, 6))}) <= 1

====
